---- MODULE Spec2Model ----
(***************************************************************************)
(* A model of the ESL runtime: the dispatch loop of runtime::Thread with   *)
(* its GC safepoint, cancellation, LAUNCH_ASYNC / AWAIT / RETURN, the      *)
(* allocator and mark-and-sweep collector of memory::GarbageCollector,     *)
(* upvalue capture by CLOSURE, and the SWITCH instruction together with    *)
(* the bytecode Compiler::visitSwitchStmt emits for it.                    *)
(*                                                                         *)
(* Twelve state machines share the module.  Spec (and LiveSpec, Spec with  *)
(* weak fairness of every thread) is the multi-threaded runtime; SpecUpval *)
(* runs closure-creating bytecode in one frame; SpecSwitch compiles and    *)
(* runs a switch statement; SpecExec runs one instruction on operands it   *)
(* is given; SpecCompile is the compiler's handling of globals, imports    *)
(* and classes; SpecValue encodes one Value and reads it back;             *)
(* SpecRecover is the compiler's scope bookkeeping across statements that  *)
(* raise a diagnostic; SpecFrames runs compiled statements on one thread's *)
(* call frames and operand stack; SpecCapture compiles the variable        *)
(* references of three nested functions and creates their closures;        *)
(* SpecJumps compiles loops and switches holding break, continue and       *)
(* advance and runs the patched jumps; SpecFuncEnd compiles a function     *)
(* body and follows its control flow to the RETURN; SpecCollect is mark()  *)
(* and sweep() over an object graph with an intern map.  Each leaves the   *)
(* other machines' variables untouched.                                    *)
(***************************************************************************)
EXTENDS Integers, Sequences, FiniteSets, TLC

(***************************************************************************)
(* Bounds of the model.                                                    *)
(***************************************************************************)
\* child threads that LAUNCH_ASYNC can create
MaxThreads == 2
\* instructions one thread executes before its program ends
MaxSteps == 3
\* initial heapSizeLimit, scaled down from HEAP_START_SIZE * 1024 bytes
HeapLimitInit == 3

VARIABLES
  \* ---- the runtime (Spec) ----
  pc,             \* per thread: position in Thread::executeBytecode
  stack,          \* per thread: the Values below stackTop
  steps,          \* per thread: instructions executed so far
  cancelToken,    \* per thread: Thread::cancelToken
  awaited,        \* per thread: the future an AWAIT is blocked on (0: none)
  shouldCollect,  \* GarbageCollector::shouldCollect
  threadsPaused,  \* VM::threadsPaused
  childThreads,   \* VM::childThreads
  pauseMtx,       \* owner of VM::pauseMtx (NoThread: free)
  heap,           \* every object ever allocated: type and fields
  objects,        \* GarbageCollector::objects
  marked,         \* the objects whose mark bit is set
  heapSize,       \* GarbageCollector::heapSize
  heapSizeLimit,  \* GarbageCollector::heapSizeLimit
  \* ---- upvalue capture (SpecUpval) ----
  uv,
  \* ---- switch (SpecSwitch) ----
  sw,
  \* ---- one instruction on given operands (SpecExec) ----
  ex,
  \* ---- the compiler's global and class tables (SpecCompile) ----
  cc,
  \* ---- the encoding of one Value (SpecValue) ----
  nb,
  \* ---- the compiler's scopes across diagnostics (SpecRecover) ----
  rc,
  \* ---- one thread's frames and operand stack (SpecFrames) ----
  fr,
  \* ---- upvalue records of nested functions (SpecCapture) ----
  cp,
  \* ---- break, continue and advance jumps (SpecJumps) ----
  pj,
  \* ---- the RETURN that ends a function (SpecFuncEnd) ----
  fe,
  \* ---- mark and sweep over an object graph (SpecCollect) ----
  co

tvars == <<pc, stack, steps, cancelToken, awaited, shouldCollect, threadsPaused,
           childThreads, pauseMtx, heap, objects, marked, heapSize, heapSizeLimit>>
vars == <<pc, stack, steps, cancelToken, awaited, shouldCollect, threadsPaused,
          childThreads, pauseMtx, heap, objects, marked, heapSize, heapSizeLimit,
          uv, sw, ex, cc, nb, rc, fr, cp, pj, fe, co>>

(***************************************************************************)
(* Values.  A Value is a tagged immediate; the model keeps the kind and    *)
(* the payload apart.  An obj payload is the identity of a heap object.    *)
(***************************************************************************)
NilVal == [k |-> "nil", v |-> 0]
BoolVal(b) == [k |-> "bool", v |-> IF b THEN 1 ELSE 0]
IntVal(n) == [k |-> "int", v |-> n]
DoubleVal(d) == [k |-> "double", v |-> d]
ObjVal(p) == [k |-> "obj", v |-> p]

isObj(x) == x.k = "obj"
isInt(x) == x.k = "int"
isDouble(x) == x.k = "double"
decodeObj(x) == IF isObj(x) THEN x.v ELSE 0

(***************************************************************************)
(* Threads.  Thread 0 is the main thread; LAUNCH_ASYNC creates 1, 2, ...   *)
(***************************************************************************)
Main == 0
NoThread == -1
Threads == 0..MaxThreads
Children == 1..MaxThreads

\* the objects the compiler leaves behind: the script closure (frame 0 of the
\* main thread) and one global function closure of arity 0
ScriptClosure == 1
FnClosure == 2

isFuture(x) == isObj(x) /\ heap[x.v].type = "FUTURE"
isClosure(x) == isObj(x) /\ heap[x.v].type = "CLOSURE"

\* executeBytecode: fut = asFuture(stack[0]); null for the main thread, whose
\* slot 0 holds nil
fut(t) == decodeObj(stack[t][1])

\* frame 0 of a thread: main runs the script closure with slots = stack, a child
\* runs the callee that startThread copied to slot 1
frameClosure(t) == IF t = Main THEN ScriptClosure ELSE decodeObj(stack[t][2])
frameBase(t) == IF t = Main THEN 1 ELSE 2

Push(t, val) == [stack EXCEPT ![t] = Append(@, val)]
Top(t) == stack[t][Len(stack[t])]
Popped(t) == SubSeq(stack[t], 1, Len(stack[t]) - 1)

Range(s) == {s[i] : i \in 1..Len(s)}

(***************************************************************************)
(* The heap.  heap[o] is the object with identity o (1..Len(heap)); an     *)
(* object the sweep destroyed keeps its record and leaves the objects list. *)
(***************************************************************************)
NewObj == Len(heap) + 1
ObjRec(type, thread, val) == [type |-> type, thread |-> thread, val |-> val]

\* Obj::getSize, and the size operator new hands to alloc: one unit per plain
\* object, two for a future
SizeOf(type) == IF type = "FUTURE" THEN 2 ELSE 1
getSize(o) == SizeOf(heap[o].type)

RECURSIVE SumSize(_)
SumSize(objs) ==
  IF objs = <<>> THEN 0 ELSE getSize(Head(objs)) + SumSize(Tail(objs))

\* the obj payloads of a sequence of Values, in order (valueHelpers::mark
\* pushes a Value onto the mark stack only when it is an object)
RECURSIVE ObjsOf(_)
ObjsOf(vals) ==
  IF vals = <<>> THEN <<>>
  ELSE (IF isObj(Head(vals)) THEN <<Head(vals).v>> ELSE <<>>) \o ObjsOf(Tail(vals))

\* alloc with the threshold test off by one
allocGE(size) ==
  /\ heapSize' = heapSize + size
  /\ shouldCollect' = (IF heapSize + size >= heapSizeLimit THEN TRUE ELSE shouldCollect)
  /\ objects' = Append(objects, NewObj)

\* GarbageCollector::alloc(size): under allocMtx, bump heapSize, raise
\* shouldCollect when over the limit, register the block
alloc(size) ==
  /\ heapSize' = heapSize + size
  /\ shouldCollect' = (IF heapSize + size > heapSizeLimit THEN TRUE ELSE shouldCollect)
  /\ objects' = Append(objects, NewObj)

\* new ObjX(...): operator new allocates through the collector, the constructor
\* fills the block
New(rec) ==
  /\ alloc(SizeOf(rec.type))
  /\ heap' = Append(heap, rec)

\* Obj::trace: the references an object holds.  A future holds its settled value.
trace(o) == IF heap[o].type = "FUTURE" THEN ObjsOf(<<heap[o].val>>) ELSE <<>>

\* Thread::frameCount: frame 0 is popped by RETURN
frameCount(t) == IF pc[t] \in {"retDel", "done"} THEN 0 ELSE 1

\* Thread::mark: every stack slot below stackTop, then every frame's closure
ThreadMark(t) ==
  ObjsOf(stack[t]) \o (IF frameCount(t) > 0 THEN <<frameClosure(t)>> ELSE <<>>)

RECURSIVE ChildMarks(_)
ChildMarks(ts) ==
  IF ts = <<>> THEN <<>> ELSE ThreadMark(Head(ts)) \o ChildMarks(Tail(ts))

\* GarbageCollector::markRoots -> VM::mark: the globals, the main thread and
\* every thread of childThreads
markRoots == <<FnClosure>> \o ThreadMark(Main) \o ChildMarks(childThreads)

\* GarbageCollector::mark: drain the mark stack
RECURSIVE mark(_, _)
mark(markStack, mk) ==
  IF markStack = <<>> THEN mk
  ELSE LET ptr == markStack[Len(markStack)]
           rest == SubSeq(markStack, 1, Len(markStack) - 1)
       IN IF ptr \in mk THEN mark(rest, mk)
          ELSE mark(rest \o trace(ptr), mk \cup {ptr})

\* GarbageCollector::sweep, the loop: from the back of the objects list, erase
\* the unmarked, count and unmark the marked
RECURSIVE sweepLoop(_, _, _)
sweepLoop(i, objs, size) ==
  IF i = 0 THEN <<objs, size>>
  ELSE IF objs[i] \notin marked
       THEN sweepLoop(i - 1, SubSeq(objs, 1, i - 1) \o SubSeq(objs, i + 1, Len(objs)), size)
       ELSE sweepLoop(i - 1, objs, size + getSize(objs[i]))

\* VM::allThreadsPaused
allThreadsPaused == threadsPaused = Len(childThreads)

\* the objects reachable through trace edges from the roots
Reachable == mark(markRoots, {})

(***************************************************************************)
(* The runtime state machine.                                              *)
(***************************************************************************)
UvIdle == [pc |-> "off"]
SwIdle == [pc |-> "off"]
ExIdle == [pc |-> "off"]
CcIdle == [pc |-> "off"]
NbIdle == [pc |-> "off"]
RcIdle == [pc |-> "off"]
FrIdle == [pc |-> "off"]
CpIdle == [pc |-> "off"]
PjIdle == [pc |-> "off"]
FeIdle == [pc |-> "off"]
CoIdle == [pc |-> "off"]

\* after compilation: the two compiled closures registered, the main thread at
\* the top of its dispatch loop with nil in slot 0, no child thread
RuntimeInit ==
  /\ pc = [t \in Threads |-> IF t = Main THEN "top" ELSE "none"]
  /\ stack = [t \in Threads |-> IF t = Main THEN <<NilVal>> ELSE <<>>]
  /\ steps = [t \in Threads |-> 0]
  /\ cancelToken = [t \in Threads |-> FALSE]
  /\ awaited = [t \in Threads |-> 0]
  /\ shouldCollect = FALSE
  /\ threadsPaused = 0
  /\ childThreads = <<>>
  /\ pauseMtx = NoThread
  /\ heap = <<ObjRec("CLOSURE", NoThread, NilVal), ObjRec("CLOSURE", NoThread, NilVal)>>
  /\ objects = <<ScriptClosure, FnClosure>>
  /\ marked = {}
  /\ heapSize = 2
  /\ heapSizeLimit = HeapLimitInit

Init == RuntimeInit /\ uv = UvIdle /\ sw = SwIdle /\ ex = ExIdle /\ cc = CcIdle /\ nb = NbIdle /\ rc = RcIdle /\ fr = FrIdle /\ cp = CpIdle /\ pj = PjIdle /\ fe = FeIdle /\ co = CoIdle

Goto(t, label) == pc' = [pc EXCEPT ![t] = label]

\* deleteThread that leaves the future's handle as it was
deleteThreadStale(f) ==
  /\ childThreads' = SelectSeq(childThreads, LAMBDA c : c # heap[f].thread)
  /\ heap' = heap

\* the lambda deleteThread(_fut, vm), entered with pauseMtx and mtx both taken:
\* erase the future's thread from childThreads and clear the future's handle
deleteThread(f) ==
  /\ childThreads' = SelectSeq(childThreads, LAMBDA c : c # heap[f].thread)
  /\ heap' = [heap EXCEPT ![f].thread = NoThread]

\* a future's std::future is ready once the child's executeBytecode has returned
futReady(f) == \E c \in Children : pc[c] \in {"done", "error", "threw"} /\ fut(c) = f

\* ---- the top of the dispatch loop (label loop:) ----

\* an outside holder of the future sets the thread's cancelToken
Cancel(t) ==
  /\ t \in Children /\ pc[t] \notin {"none", "done", "error", "threw"}
  /\ ~cancelToken[t]
  /\ cancelToken' = [cancelToken EXCEPT ![t] = TRUE]
  /\ UNCHANGED <<pc, stack, steps, awaited, shouldCollect, threadsPaused, childThreads,
                 pauseMtx, heap, objects, marked, heapSize, heapSizeLimit, uv, sw, ex, cc, nb, rc, fr, cp, pj, fe, co>>

\* cancelToken set: fut->val = nil, then on to scoped_lock(pauseMtx)
TopCancel(t) ==
  /\ pc[t] = "top" /\ cancelToken[t]
  /\ heap' = [heap EXCEPT ![fut(t)].val = NilVal]
  /\ Goto(t, "cancelLock")
  /\ UNCHANGED <<stack, steps, cancelToken, awaited, shouldCollect, threadsPaused,
                 childThreads, pauseMtx, objects, marked, heapSize, heapSizeLimit, uv, sw, ex, cc, nb, rc, fr, cp, pj, fe, co>>

\* std::scoped_lock<std::mutex> lk(vm->pauseMtx) of the cancel branch
CancelLock(t) ==
  /\ pc[t] = "cancelLock" /\ pauseMtx = NoThread
  /\ pauseMtx' = t
  /\ Goto(t, "cancelDel")
  /\ UNCHANGED <<stack, steps, cancelToken, awaited, shouldCollect, threadsPaused,
                 childThreads, heap, objects, marked, heapSize, heapSizeLimit, uv, sw, ex, cc, nb, rc, fr, cp, pj, fe, co>>

\* deleteThread(fut, vm) called with pauseMtx held: its scoped_lock(pauseMtx, mtx)
\* locks a std::mutex the thread already owns.  That is undefined: the thread
\* blocks on itself for ever, or the lock throws std::system_error (which the
\* catch(int) does not catch, so the function unwinds and releases pauseMtx),
\* or the lock is granted and the branch runs to its end.
CancelDelete(t) ==
  /\ pc[t] = "cancelDel"
  /\ \/ /\ Goto(t, "stuck")
        /\ UNCHANGED <<pauseMtx, childThreads, heap>>
     \/ /\ Goto(t, "threw")
        /\ pauseMtx' = NoThread
        /\ UNCHANGED <<childThreads, heap>>
     \/ /\ deleteThread(fut(t))
        /\ pauseMtx' = NoThread
        /\ Goto(t, "done")
  /\ UNCHANGED <<stack, steps, cancelToken, awaited, shouldCollect, threadsPaused,
                 objects, marked, heapSize, heapSizeLimit, uv, sw, ex, cc, nb, rc, fr, cp, pj, fe, co>>

\* main thread, shouldCollect set: collect at once when allThreadsPaused(),
\* else wait on mainThreadCv
TopMain(t) ==
  /\ t = Main /\ pc[t] = "top" /\ ~cancelToken[t]
  /\ Goto(t, IF ~shouldCollect THEN "exec"
             ELSE IF allThreadsPaused THEN "collect" ELSE "gcWait")
  /\ UNCHANGED <<stack, steps, cancelToken, awaited, shouldCollect, threadsPaused,
                 childThreads, pauseMtx, heap, objects, marked, heapSize,
                 heapSizeLimit, uv, sw, ex, cc, nb, rc, fr, cp, pj, fe, co>>

\* mainThreadCv.wait(lk, allThreadsPaused), then lk.unlock()
MainWait(t) ==
  /\ t = Main /\ pc[t] = "gcWait"
  /\ pauseMtx = NoThread /\ allThreadsPaused
  /\ Goto(t, "collect")
  /\ UNCHANGED <<stack, steps, cancelToken, awaited, shouldCollect, threadsPaused,
                 childThreads, pauseMtx, heap, objects, marked, heapSize,
                 heapSizeLimit, uv, sw, ex, cc, nb, rc, fr, cp, pj, fe, co>>

\* child thread: shouldCollect decides between pausing and dispatching
TopChild(t) ==
  /\ t \in Children /\ pc[t] = "top" /\ ~cancelToken[t]
  /\ Goto(t, IF shouldCollect THEN "inc" ELSE "exec")
  /\ UNCHANGED <<stack, steps, cancelToken, awaited, shouldCollect, threadsPaused,
                 childThreads, pauseMtx, heap, objects, marked, heapSize,
                 heapSizeLimit, uv, sw, ex, cc, nb, rc, fr, cp, pj, fe, co>>

\* { scoped_lock lk(pauseMtx); threadsPaused.fetch_add(1); } notify_one
ChildPause(t) ==
  /\ pc[t] = "inc" /\ pauseMtx = NoThread
  /\ threadsPaused' = threadsPaused + 1
  /\ Goto(t, "wait")
  /\ UNCHANGED <<stack, steps, cancelToken, awaited, shouldCollect, childThreads,
                 pauseMtx, heap, objects, marked, heapSize, heapSizeLimit, uv, sw, ex, cc, nb, rc, fr, cp, pj, fe, co>>

\* childThreadsCv.wait(lk, !shouldCollect) returns with pauseMtx held
ChildWake(t) ==
  /\ pc[t] = "wait" /\ pauseMtx = NoThread /\ ~shouldCollect
  /\ pauseMtx' = t
  /\ Goto(t, "dec")
  /\ UNCHANGED <<stack, steps, cancelToken, awaited, shouldCollect, threadsPaused,
                 childThreads, heap, objects, marked, heapSize, heapSizeLimit, uv, sw, ex, cc, nb, rc, fr, cp, pj, fe, co>>

\* threadsPaused.fetch_sub(1); lk.unlock(); on to the instruction
ChildResume(t) ==
  /\ pc[t] = "dec"
  /\ threadsPaused' = threadsPaused - 1
  /\ pauseMtx' = NoThread
  /\ Goto(t, "exec")
  /\ UNCHANGED <<stack, steps, cancelToken, awaited, shouldCollect, childThreads,
                 heap, objects, marked, heapSize, heapSizeLimit, uv, sw, ex, cc, nb, rc, fr, cp, pj, fe, co>>

\* ---- GarbageCollector::collect(), run by the main thread ----

\* markRoots(); mark();
GcMark(t) ==
  /\ t = Main /\ pc[t] = "collect"
  /\ marked' = mark(markRoots, marked)
  /\ Goto(t, "sweep")
  /\ UNCHANGED <<stack, steps, cancelToken, awaited, shouldCollect, threadsPaused,
                 childThreads, pauseMtx, heap, objects, heapSize, heapSizeLimit, uv, sw, ex, cc, nb, rc, fr, cp, pj, fe, co>>

\* sweep(): heapSize = 0;
GcSweepReset(t) ==
  /\ t = Main /\ pc[t] = "sweep"
  /\ heapSize' = 0
  /\ Goto(t, "sweepLoop")
  /\ UNCHANGED <<stack, steps, cancelToken, awaited, shouldCollect, threadsPaused,
                 childThreads, pauseMtx, heap, objects, marked, heapSizeLimit, uv, sw, ex, cc, nb, rc, fr, cp, pj, fe, co>>

\* sweep(): the loop over the objects list
GcSweepLoop(t) ==
  /\ t = Main /\ pc[t] = "sweepLoop"
  /\ LET r == sweepLoop(Len(objects), objects, heapSize)
     IN /\ objects' = r[1]
        /\ heapSize' = r[2]
        /\ marked' = marked \ Range(r[1])
  /\ Goto(t, "finish")
  /\ UNCHANGED <<stack, steps, cancelToken, awaited, shouldCollect, threadsPaused,
                 childThreads, pauseMtx, heap, heapSizeLimit, uv, sw, ex, cc, nb, rc, fr, cp, pj, fe, co>>

\* if (heapSize > heapSizeLimit) heapSizeLimit << 1;  the shift's value is
\* dropped, the limit is what it was
limitAfterCollect == IF heapSize > heapSizeLimit THEN heapSizeLimit ELSE heapSizeLimit

\* the limit statement; { scoped_lock lk(pauseMtx); shouldCollect.store(false); }
\* unpauseAllThreads(); childThreadsCv.notify_all(); then on to the instruction
GcFinish(t) ==
  /\ t = Main /\ pc[t] = "finish" /\ pauseMtx = NoThread
  /\ heapSizeLimit' = limitAfterCollect
  /\ shouldCollect' = FALSE
  /\ Goto(t, "exec")
  /\ UNCHANGED <<stack, steps, cancelToken, awaited, threadsPaused, childThreads,
                 pauseMtx, heap, objects, marked, heapSize, uv, sw, ex, cc, nb, rc, fr, cp, pj, fe, co>>

\* ---- instructions ----
CanExec(t) == pc[t] = "exec" /\ steps[t] < MaxSteps
HasOperand(t) == Len(stack[t]) > frameBase(t)
Stepped(t) == steps' = [steps EXCEPT ![t] = @ + 1]

\* LOAD_INT b.  Also the value an exhausted program returns.
LoadInt(t) ==
  /\ pc[t] = "exec" /\ (steps[t] < MaxSteps \/ ~HasOperand(t))
  /\ stack' = Push(t, IntVal(7))
  /\ steps' = [steps EXCEPT ![t] = IF @ < MaxSteps THEN @ + 1 ELSE @]
  /\ Goto(t, "top")
  /\ UNCHANGED <<cancelToken, awaited, shouldCollect, threadsPaused, childThreads,
                 pauseMtx, heap, objects, marked, heapSize, heapSizeLimit, uv, sw, ex, cc, nb, rc, fr, cp, pj, fe, co>>

\* POP
Pop(t) ==
  /\ CanExec(t) /\ HasOperand(t)
  /\ stack' = [stack EXCEPT ![t] = Popped(t)]
  /\ Stepped(t) /\ Goto(t, "top")
  /\ UNCHANGED <<cancelToken, awaited, shouldCollect, threadsPaused, childThreads,
                 pauseMtx, heap, objects, marked, heapSize, heapSizeLimit, uv, sw, ex, cc, nb, rc, fr, cp, pj, fe, co>>

\* GET_GLOBAL of the global function
GetGlobal(t) ==
  /\ CanExec(t)
  /\ stack' = Push(t, ObjVal(FnClosure))
  /\ Stepped(t) /\ Goto(t, "top")
  /\ UNCHANGED <<cancelToken, awaited, shouldCollect, threadsPaused, childThreads,
                 pauseMtx, heap, objects, marked, heapSize, heapSizeLimit, uv, sw, ex, cc, nb, rc, fr, cp, pj, fe, co>>

\* CREATE_ARRAY 0: new ObjArray, pushed
CreateArray(t) ==
  /\ CanExec(t)
  /\ New(ObjRec("ARRAY", NoThread, NilVal))
  /\ stack' = Push(t, ObjVal(NewObj))
  /\ Stepped(t) /\ Goto(t, "top")
  /\ UNCHANGED <<cancelToken, awaited, threadsPaused, childThreads, pauseMtx,
                 marked, heapSizeLimit, uv, sw, ex, cc, nb, rc, fr, cp, pj, fe, co>>

\* LAUNCH_ASYNC 0: new Thread, new ObjFuture(t), future to the child's slot 0,
\* startThread copies the callee and calls it (a callee that is no closure of
\* arity 0 is a runtime error of the launching thread), the callee leaves the
\* parent's stack, the child joins childThreads under mtx and starts, the
\* future is pushed on the parent
LaunchAsync(t) ==
  /\ CanExec(t) /\ HasOperand(t)
  /\ \E c \in Children :
       /\ pc[c] = "none" /\ \A d \in Children : d < c => pc[d] # "none"
       /\ New(ObjRec("FUTURE", c, NilVal))
       /\ IF isClosure(Top(t))
          THEN /\ stack' = [stack EXCEPT ![c] = <<ObjVal(NewObj), Top(t)>>,
                                         ![t] = Append(Popped(t), ObjVal(NewObj))]
               /\ childThreads' = Append(childThreads, c)
               /\ pc' = [pc EXCEPT ![c] = "top", ![t] = "top"]
          ELSE /\ stack' = [stack EXCEPT ![c] = <<ObjVal(NewObj), Top(t)>>]
               /\ childThreads' = childThreads
               /\ pc' = [pc EXCEPT ![c] = "orphan", ![t] = "error"]
  /\ Stepped(t)
  /\ UNCHANGED <<cancelToken, awaited, threadsPaused, pauseMtx, marked,
                 heapSizeLimit, uv, sw, ex, cc, nb, rc, fr, cp, pj, fe, co>>

\* AWAIT, first half: pop, type check, futToAwait->fut.wait()
Await(t) ==
  /\ CanExec(t) /\ HasOperand(t)
  /\ stack' = [stack EXCEPT ![t] = Popped(t)]
  /\ IF isFuture(Top(t))
     THEN /\ awaited' = [awaited EXCEPT ![t] = Top(t).v]
          /\ Goto(t, "awaiting")
     ELSE /\ awaited' = awaited
          /\ Goto(t, "error")
  /\ Stepped(t)
  /\ UNCHANGED <<cancelToken, shouldCollect, threadsPaused, childThreads, pauseMtx,
                 heap, objects, marked, heapSize, heapSizeLimit, uv, sw, ex, cc, nb, rc, fr, cp, pj, fe, co>>

\* AWAIT, second half: the wait is over; deleteThread(futToAwait, vm) under
\* pauseMtx and mtx; push(futToAwait->val)
AwaitDone(t) ==
  /\ pc[t] = "awaiting" /\ futReady(awaited[t]) /\ pauseMtx = NoThread
  /\ deleteThread(awaited[t])
  /\ stack' = Push(t, heap[awaited[t]].val)
  /\ awaited' = [awaited EXCEPT ![t] = 0]
  /\ Goto(t, "top")
  /\ UNCHANGED <<steps, cancelToken, shouldCollect, threadsPaused, pauseMtx,
                 objects, marked, heapSize, heapSizeLimit, uv, sw, ex, cc, nb, rc, fr, cp, pj, fe, co>>

\* RETURN at frame 0: result = pop(); frameCount--; the main thread returns, a
\* child stores the result in its future and goes on to deleteThread
Return(t) ==
  /\ pc[t] = "exec" /\ HasOperand(t)
  /\ stack' = [stack EXCEPT ![t] = Popped(t)]
  /\ IF t = Main
     THEN heap' = heap /\ Goto(t, "done")
     ELSE heap' = [heap EXCEPT ![fut(t)].val = Top(t)] /\ Goto(t, "retDel")
  /\ UNCHANGED <<steps, cancelToken, awaited, shouldCollect, threadsPaused,
                 childThreads, pauseMtx, objects, marked, heapSize, heapSizeLimit,
                 uv, sw, ex, cc, nb, rc, fr, cp, pj, fe, co>>

\* deleteThread(fut, vm) of RETURN: scoped_lock(pauseMtx, mtx), erase, notify
ReturnDelete(t) ==
  /\ pc[t] = "retDel" /\ pauseMtx = NoThread
  /\ deleteThread(fut(t))
  /\ Goto(t, "done")
  /\ UNCHANGED <<stack, steps, cancelToken, awaited, shouldCollect, threadsPaused,
                 pauseMtx, objects, marked, heapSize, heapSizeLimit, uv, sw, ex, cc, nb, rc, fr, cp, pj, fe, co>>

\* one step of thread t
Step(t) ==
  \/ TopCancel(t) \/ CancelLock(t) \/ CancelDelete(t)
  \/ TopMain(t) \/ MainWait(t)
  \/ TopChild(t) \/ ChildPause(t) \/ ChildWake(t) \/ ChildResume(t)
  \/ GcMark(t) \/ GcSweepReset(t) \/ GcSweepLoop(t) \/ GcFinish(t)
  \/ LoadInt(t) \/ Pop(t) \/ GetGlobal(t) \/ CreateArray(t)
  \/ LaunchAsync(t) \/ Await(t) \/ AwaitDone(t)
  \/ Return(t) \/ ReturnDelete(t)

Next == \E t \in Threads : Step(t) \/ Cancel(t)

Spec == Init /\ [][Next]_vars

\* every thread that can take a step eventually takes one
LiveSpec == Spec /\ \A t \in Threads : WF_vars(Step(t))

(***************************************************************************)
(* Upvalue capture.  One call frame with its local slots, the ObjUpval     *)
(* cells, and the closures that CLOSURE instructions of the frame create.  *)
(* uv.slots are the frame's locals (slotStart[0..]), uv.cells[i] is the    *)
(* val field of ObjUpval i, uv.frameUpvals are the upvals of the frame's   *)
(* own closure, uv.closures[c] keeps the upvalue entry of closure c with   *)
(* the (isLocal, index) pair it was created from, uv.top is the Value the  *)
(* last instruction pushed.                                                *)
(***************************************************************************)
\* locals of the frame
MaxLocals == 1
\* CLOSURE instructions the frame executes
MaxClosures == 2
\* integers the program writes are 1..MaxVal
MaxVal == 2

UvVals == {IntVal(n) : n \in 1..MaxVal}
ClosureVal(c) == [k |-> "closure", v |-> c]

\* in this machine the only heap objects a slot can hold are ObjUpval cells
isUpvalue(x) == isObj(x) /\ x.v \in 1..Len(uv.cells)

InitUpval ==
  /\ RuntimeInit
  /\ sw = SwIdle /\ ex = ExIdle /\ cc = CcIdle /\ nb = NbIdle /\ rc = RcIdle /\ fr = FrIdle /\ cp = CpIdle /\ pj = PjIdle /\ fe = FeIdle /\ co = CoIdle
  /\ uv = [pc |-> "run",
           slots |-> [i \in 1..MaxLocals |-> IntVal(0)],
           cells |-> <<IntVal(0)>>,
           frameUpvals |-> <<1>>,
           closures |-> <<>>,
           top |-> NilVal]

\* captureUpvalue(local): a new ObjUpval takes the slot's current Value and the
\* slot is overwritten with a reference to it; the new cell is Len(cells) + 1
captureUpvalue(index) ==
  [uv EXCEPT !.cells = Append(@, uv.slots[index]),
             !.slots[index] = ObjVal(Len(uv.cells) + 1)]

\* CLOSURE / CLOSURE_LONG for a function with one upvalue (isLocal, index)
UvClosure(isLocal, index) ==
  /\ uv.pc = "run"
  /\ Len(uv.closures) < MaxClosures
  /\ index \in (IF isLocal THEN 1..Len(uv.slots) ELSE 1..Len(uv.frameUpvals))
  /\ uv' = IF isLocal
           THEN [captureUpvalue(index) EXCEPT
                   !.closures = Append(@, [upval |-> Len(uv.cells) + 1,
                                           isLocal |-> TRUE, index |-> index]),
                   !.top = ClosureVal(Len(uv.closures) + 1)]
           ELSE [uv EXCEPT
                   !.closures = Append(@, [upval |-> uv.frameUpvals[index],
                                           isLocal |-> FALSE, index |-> index]),
                   !.top = ClosureVal(Len(uv.closures) + 1)]
  /\ UNCHANGED <<tvars, sw, ex, cc, nb, rc, fr, cp, pj, fe, co>>

\* the Value GET_LOCAL slot pushes
GetLocalVal(slot) ==
  IF isUpvalue(uv.slots[slot]) THEN uv.cells[uv.slots[slot].v] ELSE uv.slots[slot]

\* the Value GET_UPVALUE 0 pushes when closure c is the frame's closure
GetUpvalueVal(c) == uv.cells[uv.closures[c].upval]

UvGetLocal(slot) ==
  /\ uv.pc = "run"
  /\ slot \in 1..Len(uv.slots)
  /\ uv' = [uv EXCEPT !.top = GetLocalVal(slot)]
  /\ UNCHANGED <<tvars, sw, ex, cc, nb, rc, fr, cp, pj, fe, co>>

\* SET_LOCAL slot with val = peek(0)
UvSetLocal(slot, val) ==
  /\ uv.pc = "run"
  /\ slot \in 1..Len(uv.slots)
  /\ uv' = IF isUpvalue(uv.slots[slot])
           THEN [uv EXCEPT !.cells[uv.slots[slot].v] = val, !.top = val]
           ELSE [uv EXCEPT !.slots[slot] = val, !.top = val]
  /\ UNCHANGED <<tvars, sw, ex, cc, nb, rc, fr, cp, pj, fe, co>>

\* GET_UPVALUE 0 executed in a call of closure c
UvGetUpvalue(c) ==
  /\ uv.pc # "off"
  /\ c \in 1..Len(uv.closures)
  /\ uv' = [uv EXCEPT !.top = GetUpvalueVal(c)]
  /\ UNCHANGED <<tvars, sw, ex, cc, nb, rc, fr, cp, pj, fe, co>>

\* SET_UPVALUE 0 with val = peek(0), executed in a call of closure c
UvSetUpvalue(c, val) ==
  /\ uv.pc # "off"
  /\ c \in 1..Len(uv.closures)
  /\ uv' = [uv EXCEPT !.cells[uv.closures[c].upval] = val, !.top = val]
  /\ UNCHANGED <<tvars, sw, ex, cc, nb, rc, fr, cp, pj, fe, co>>

\* RETURN of the defining frame: its slots are popped, the closures live on
UvReturn ==
  /\ uv.pc = "run"
  /\ uv' = [uv EXCEPT !.pc = "returned", !.slots = <<>>]
  /\ UNCHANGED <<tvars, sw, ex, cc, nb, rc, fr, cp, pj, fe, co>>

NextUpval ==
  \/ \E isLocal \in BOOLEAN, index \in 1..MaxLocals : UvClosure(isLocal, index)
  \/ \E slot \in 1..MaxLocals : UvGetLocal(slot)
  \/ \E slot \in 1..MaxLocals, val \in UvVals : UvSetLocal(slot, val)
  \/ \E c \in 1..MaxClosures : UvGetUpvalue(c)
  \/ \E c \in 1..MaxClosures, val \in UvVals : UvSetUpvalue(c, val)
  \/ UvReturn

SpecUpval == InitUpval /\ [][NextUpval]_vars

\* C9: shared-cell invariant.  Closures created by separate CLOSURE instructions
\* from the same local of the frame hold one and the same ObjUpval; while the
\* frame is live its slot refers to that cell, so GET_LOCAL in the frame and
\* GET_UPVALUE in each of those closures read the same Value, the one last
\* written through any of them.
C9_SharedCell ==
  uv.pc # "off" =>
    \A c, d \in 1..Len(uv.closures) :
      (uv.closures[c].isLocal /\ uv.closures[d].isLocal
         /\ uv.closures[c].index = uv.closures[d].index) =>
        /\ uv.closures[c].upval = uv.closures[d].upval
        /\ GetUpvalueVal(c) = GetUpvalueVal(d)
        /\ uv.pc = "run" =>
             /\ uv.slots[uv.closures[c].index] = ObjVal(uv.closures[c].upval)
             /\ GetLocalVal(uv.closures[c].index) = GetUpvalueVal(c)

(***************************************************************************)
(* Switch.  Compiler::visitSwitchStmt lays a switch statement out as       *)
(*   op, 16-bit n, n constant indexes, n + 1 16-bit jump slots, the case   *)
(*   bodies, each followed by the implicit break JUMP                      *)
(* and Thread::executeBytecode runs SWITCH / SWITCH_LONG over these bytes. *)
(* Byte offsets count from the switch opcode (offset 0 is code[1]).         *)
(***************************************************************************)
\* cases of one switch statement
MaxCases == 2
\* constants listed by one case
MaxConsts == 2
SHORT_CONSTANT_LIMIT == 255

\* opcodes, as byte values of the model's own numbering
OP_SWITCH == 1
OP_SWITCH_LONG == 2
OP_JUMP == 3
\* the one-byte body of case k is the byte OP_BODY + k
OP_BODY == 10

\* case-constant tokens: type and lexeme
Tok(type, lexeme) == [type |-> type, lexeme |-> lexeme]
SwTokens == {Tok("NIL", "nil"), Tok("TRUE", "true"), Tok("NUMBER", "1"), Tok("STRING", "\"a\"")}

\* encodeNumber(std::stod(lexeme)) for the integral lexemes of SwTokens
encodeNumber(lexeme) == IntVal(IF lexeme = "1" THEN 1 ELSE 2)

\* the lexeme without its quotes
Unquote(lexeme) == IF lexeme = "\"a\"" THEN "a" ELSE "b"

\* a switch statement: its cases in source order, at most one of them default
SwCases ==
  {[isDefault |-> FALSE, constants |-> cs] :
      cs \in UNION {[1..n -> SwTokens] : n \in 1..MaxConsts}}
    \cup {[isDefault |-> TRUE, constants |-> <<>>]}
SwStmts ==
  {cases \in UNION {[1..n -> SwCases] : n \in 1..MaxCases} :
      Cardinality({i \in DOMAIN cases : cases[i].isDefault}) <= 1}
hasDefault(cases) == \E i \in DOMAIN cases : cases[i].isDefault

\* all constants of the statement, in source order
RECURSIVE AllTokens(_)
AllTokens(cases) ==
  IF cases = <<>> THEN <<>> ELSE Head(cases).constants \o AllTokens(Tail(cases))

\* the Value visitSwitchStmt makes of a token; a STRING token is a new
\* ObjString, whose identity is the next free index of the string table
TokenValue(tok, strings) ==
  CASE tok.type = "NUMBER" -> encodeNumber(tok.lexeme)
    [] tok.type = "TRUE" -> BoolVal(TRUE)
    [] tok.type = "FALSE" -> BoolVal(FALSE)
    [] tok.type = "NIL" -> NilVal
    [] tok.type = "STRING" -> ObjVal(Len(strings) + 1)

\* the first loop of visitSwitchStmt: one pool constant per token
RECURSIVE MakeConstants(_, _, _)
MakeConstants(toks, pool, strings) ==
  IF toks = <<>> THEN [pool |-> pool, strings |-> strings]
  ELSE MakeConstants(Tail(toks),
                     Append(pool, TokenValue(Head(toks), strings)),
                     IF Head(toks).type = "STRING"
                     THEN Append(strings, Unquote(Head(toks).lexeme)) ELSE strings)

Hi(n) == (n \div 256) % 256
Lo(n) == n % 256
emit16Bit(n) == <<Hi(n), Lo(n)>>

RECURSIVE Repeat(_, _)
Repeat(bytes, n) == IF n = 0 THEN <<>> ELSE bytes \o Repeat(bytes, n - 1)

\* the constant indexes base .. base + n - 1, one or two bytes each
RECURSIVE EmitIndexes(_, _, _)
EmitIndexes(base, n, isLong) ==
  IF n = 0 THEN <<>>
  ELSE (IF isLong THEN emit16Bit(base) ELSE <<base>>) \o EmitIndexes(base + 1, n - 1, isLong)

\* patchJump(offset): the 16-bit slot at offset gets size - offset - 2
patchJump(code, offset) ==
  [code EXCEPT ![offset + 1] = Hi(Len(code) - offset - 2),
               ![offset + 2] = Lo(Len(code) - offset - 2)]

RECURSIVE PatchAll(_, _)
PatchAll(code, offsets) ==
  IF offsets = <<>> THEN code ELSE PatchAll(patchJump(code, Head(offsets)), Tail(offsets))

\* the slots jumps[i .. i + n - 1]
SlotsFrom(jumps, i, n) == [j \in 1..n |-> jumps[i + j - 1]]

\* the loop over the cases: patch the slots of the case to the current end of
\* the code, emit the body, emit the implicit break.  i counts the constants
\* done, k the cases done; bodies[k] is the offset of the body of case k.
RECURSIVE CompileCases(_, _, _, _, _, _, _)
CompileCases(cases, k, code, jumps, i, breaks, bodies) ==
  IF k > Len(cases) THEN [code |-> code, breaks |-> breaks, bodies |-> bodies]
  ELSE LET n == Len(cases[k].constants)
           patched == IF cases[k].isDefault
                      THEN patchJump(code, jumps[Len(jumps)])
                      ELSE PatchAll(code, SlotsFrom(jumps, i + 1, n))
           body == Append(patched, OP_BODY + k)
           brk == body \o <<OP_JUMP, 255, 255>>
       IN CompileCases(cases, k + 1, brk, jumps,
                       IF cases[k].isDefault THEN i ELSE i + n,
                       Append(breaks, Len(brk) - 2),
                       Append(bodies, Len(patched)))

\* visitSwitchStmt for a chunk that already holds base constants and the
\* ObjStrings of the table strings.  The
\* assignment to jumps[last] of a statement without default changes the local
\* vector only, the emitted slot keeps its 0xffff.
visitSwitchStmt(cases, base, strings) ==
  LET made == MakeConstants(AllTokens(cases), <<>>, strings)
      n == Len(made.pool)
      isLong == \E c \in 1..n : base + c - 1 > SHORT_CONSTANT_LIMIT
      head == <<IF isLong THEN OP_SWITCH_LONG ELSE OP_SWITCH>> \o emit16Bit(n)
                \o EmitIndexes(base, n, isLong)
      jumps == [j \in 1..(n + 1) |-> Len(head) + 2 * (j - 1)]
      slots == head \o Repeat(<<255, 255>>, n + 1)
      done == CompileCases(cases, 1, slots, jumps, 0, <<>>, <<>>)
  IN [code |-> PatchAll(done.code, done.breaks),
      pool |-> made.pool,
      strings |-> made.strings,
      bodies |-> done.bodies]

\* the literals the switched expression is drawn from
SwExprs == SwTokens \cup {Tok("FALSE", "false"), Tok("NUMBER", "2"), Tok("STRING", "\"b\"")}

\* visitLiteralExpr: the Value of a literal; a string literal is a new ObjString
visitLiteralExpr(tok) ==
  [val |-> TokenValue(tok, <<>>),
   strings |-> IF tok.type = "STRING" THEN <<Unquote(tok.lexeme)>> ELSE <<>>]

InitSwitch ==
  /\ RuntimeInit
  /\ uv = UvIdle /\ ex = ExIdle /\ cc = CcIdle /\ nb = NbIdle /\ rc = RcIdle /\ fr = FrIdle /\ cp = CpIdle /\ pj = PjIdle /\ fe = FeIdle /\ co = CoIdle
  /\ \E cases \in SwStmts, expr \in SwExprs, base \in {0, SHORT_CONSTANT_LIMIT} :
       sw = [pc |-> "source", cases |-> cases, expr |-> expr, base |-> base,
             code |-> <<>>, pool |-> <<>>, strings |-> <<>>, bodies |-> <<>>,
             val |-> NilVal, stack |-> <<>>, ip |-> 0, entered |-> 0]

\* compile "switch (expr) { cases }": the expression, then the statement
SwCompile ==
  /\ sw.pc = "source"
  /\ LET lit == visitLiteralExpr(sw.expr)
         out == visitSwitchStmt(sw.cases, sw.base, lit.strings)
     IN sw' = [sw EXCEPT !.pc = "compiled", !.val = lit.val, !.code = out.code,
                         !.pool = out.pool, !.strings = out.strings,
                         !.bodies = out.bodies]
  /\ UNCHANGED <<tvars, uv, ex, cc, nb, rc, fr, cp, pj, fe, co>>

\* the code of the expression pushes its Value; ip is at the switch opcode
SwPush ==
  /\ sw.pc = "compiled"
  /\ sw' = [sw EXCEPT !.pc = "ready", !.stack = <<sw.val>>, !.ip = 0]
  /\ UNCHANGED <<tvars, uv, ex, cc, nb, rc, fr, cp, pj, fe, co>>

READ_SHORT(code, ip) == code[ip + 1] * 256 + code[ip + 2]

\* vm->code.constants[constantOffset + index], the function's constants
\* starting at offset 0 and the first base of them not kept by the model
READ_CONSTANT(index) == sw.pool[index - sw.base + 1]

\* the loop of SWITCH / SWITCH_LONG: the number i of the first constant that is
\* the same 64-bit Value as val, caseNum when there is none; w is the width of
\* a constant index
RECURSIVE FindCase(_, _, _, _, _)
FindCase(val, ip, i, caseNum, w) ==
  IF i >= caseNum THEN caseNum
  ELSE IF val = READ_CONSTANT(IF w = 2 THEN READ_SHORT(sw.code, ip) ELSE sw.code[ip + 1])
       THEN i
       ELSE FindCase(val, ip + w, i + 1, caseNum, w)

\* where SWITCH (w = 1) or SWITCH_LONG (w = 2) leaves ip
SwitchTarget(val, w) ==
  LET caseNum == READ_SHORT(sw.code, sw.ip + 1)
      offset == sw.ip + 3 + caseNum * w
      jumpOffset == offset + FindCase(val, sw.ip + 3, 0, caseNum, w) * 2
  IN jumpOffset + 2 + READ_SHORT(sw.code, jumpOffset)

SwSwitch ==
  /\ sw.pc = "ready"
  /\ sw.code[sw.ip + 1] = OP_SWITCH
  /\ sw' = [sw EXCEPT !.pc = "jumped", !.stack = <<>>,
                      !.ip = SwitchTarget(sw.stack[1], 1)]
  /\ UNCHANGED <<tvars, uv, ex, cc, nb, rc, fr, cp, pj, fe, co>>

SwSwitchLong ==
  /\ sw.pc = "ready"
  /\ sw.code[sw.ip + 1] = OP_SWITCH_LONG
  /\ sw' = [sw EXCEPT !.pc = "jumped", !.stack = <<>>,
                      !.ip = SwitchTarget(sw.stack[1], 2)]
  /\ UNCHANGED <<tvars, uv, ex, cc, nb, rc, fr, cp, pj, fe, co>>

\* the body of a case runs
SwBody ==
  /\ sw.pc = "jumped"
  /\ sw.ip < Len(sw.code)
  /\ sw.code[sw.ip + 1] > OP_BODY
  /\ sw' = [sw EXCEPT !.pc = "body", !.entered = sw.code[sw.ip + 1] - OP_BODY,
                      !.ip = sw.ip + 1]
  /\ UNCHANGED <<tvars, uv, ex, cc, nb, rc, fr, cp, pj, fe, co>>

\* JUMP, the implicit break after the body
SwJump ==
  /\ sw.pc = "body"
  /\ sw.code[sw.ip + 1] = OP_JUMP
  /\ sw' = [sw EXCEPT !.pc = "end", !.ip = sw.ip + 3 + READ_SHORT(sw.code, sw.ip + 1)]
  /\ UNCHANGED <<tvars, uv, ex, cc, nb, rc, fr, cp, pj, fe, co>>

NextSwitch == SwCompile \/ SwPush \/ SwSwitch \/ SwSwitchLong \/ SwBody \/ SwJump

SpecSwitch == InitSwitch /\ [][NextSwitch]_vars

\* approximate equality of two doubles within DBL_EPSILON, the payload of a
\* double counted in units of DBL_EPSILON
FLOAT_EQ(x, y) == x.v = y.v

isString(x) == isObj(x) /\ x.v \in 1..Len(sw.strings)

\* equals(x, y): another kind is unequal, doubles compare approximately,
\* strings by content, everything else as 64-bit Values
equals(x, y) ==
  IF x.k # y.k THEN FALSE
  ELSE IF isDouble(x) THEN FLOAT_EQ(x, y)
  ELSE IF isString(x) THEN sw.strings[x.v] = sw.strings[y.v]
  ELSE x = y

\* the cases' constants that equal the switched Value, numbered from 1
EqualConstants == {i \in 1..Len(sw.pool) : equals(sw.val, sw.pool[i])}
FirstEqual == CHOOSE i \in EqualConstants : \A j \in EqualConstants : i <= j

\* the case that lists constant number i
RECURSIVE CaseOf(_, _, _)
CaseOf(cases, k, i) ==
  IF i <= Len(cases[k].constants) THEN k
  ELSE CaseOf(cases, k + 1, i - Len(cases[k].constants))

\* C10: switch, matching case.  When the switched Value equals (by equals) some
\* case constant, SWITCH and SWITCH_LONG pop it and leave ip at the first
\* instruction of the body of the first case that lists an equal constant.
C10_SwitchMatch ==
  (sw.pc = "jumped" /\ EqualConstants # {}) =>
    /\ sw.stack = <<>>
    /\ sw.ip = sw.bodies[CaseOf(sw.cases, 1, FirstEqual)]

\* the case that is the default case
DefaultCase == CHOOSE k \in DOMAIN sw.cases : sw.cases[k].isDefault

\* C11: switch, no matching case.  When the switched Value equals no case
\* constant, SWITCH and SWITCH_LONG leave ip at the first instruction of the
\* default body if the statement has a default case, and otherwise at the first
\* instruction after the statement; either way ip stays inside the code.
C11_SwitchNoMatch ==
  (sw.pc = "jumped" /\ EqualConstants = {}) =>
    /\ sw.ip <= Len(sw.code)
    /\ sw.ip = (IF hasDefault(sw.cases) THEN sw.bodies[DefaultCase] ELSE Len(sw.code))

(***************************************************************************)
(* One instruction on given operands.  ex.heap is a table of one object    *)
(* per object kind, ex.stack the operands below stackTop (the last is      *)
(* peek(0)); an instruction ends with ex.err the code runtimeError threw   *)
(* (0: none), ex.stack and ex.heap as it left them, ex.frameCount the call *)
(* frames, and ex.oob set if it touched an array element outside the       *)
(* array; ex.input keeps the operands it started from.                     *)
(***************************************************************************)
\* longest array
MaxLen == 2
\* largest arity and argument count
MaxArity == 1
\* width of the int payload in bits, scaled down from the 32 of int32_t
IntBits == 4

ExNames == {"f", "g", "c"}
NoFields == [n \in {} |-> NilVal]

ExObj(type) ==
  [type |-> type, values |-> <<>>, fields |-> NoFields, klass |-> 0,
   methods |-> {}, arity |-> 0, str |-> "", receiver |-> NilVal, method |-> 0,
   numOfHeapPtr |-> 0]

\* the objects: an array of len elements, two strings, the callables, class 7
\* with superclass 8, an instance of class 7, a struct, and the other kinds
\* (the val of the ObjUpval is kept in values[1]);
\* the instance and the struct have field f iff hasField, both classes have
\* method f iff hasMethod, so that class 7, named f, then has a constructor;
\* a variadic native has arity -1
ExHeap(len, hasField, hasMethod, arity) ==
  LET flds == IF hasField THEN [n \in {"f"} |-> IntVal(0)] ELSE NoFields
      mths == IF hasMethod THEN {"f"} ELSE {}
  IN << [ExObj("ARRAY") EXCEPT !.values = [i \in 1..len |-> IntVal(0)]],
        [ExObj("STRING") EXCEPT !.str = "f"],
        [ExObj("STRING") EXCEPT !.str = "g"],
        [ExObj("CLOSURE") EXCEPT !.arity = arity],
        [ExObj("NATIVE") EXCEPT !.arity = arity],
        [ExObj("BOUND_NATIVE") EXCEPT !.arity = -1, !.receiver = ObjVal(2)],
        [ExObj("CLASS") EXCEPT !.methods = mths, !.str = "f"],
        [ExObj("CLASS") EXCEPT !.methods = mths, !.str = "g"],
        [ExObj("INSTANCE") EXCEPT !.fields = flds, !.klass = 7],
        [ExObj("INSTANCE") EXCEPT !.fields = flds],
        [ExObj("BOUND_METHOD") EXCEPT !.receiver = ObjVal(9), !.method = 4],
        [ExObj("UPVALUE") EXCEPT !.values = <<IntVal(0)>>],
        ExObj("FUNC"),
        ExObj("FILE"),
        ExObj("MUTEX"),
        ExObj("FUTURE") >>

ExObjects == 1..16

\* the elements of values that are heap pointers
HeapPtrs(values) == Cardinality({i \in DOMAIN values : isObj(values[i])})
\* the heap with the array holding elems, its numOfHeapPtr as CREATE_ARRAY
\* and SET have left it
ExArrayHeap(elems) ==
  [ExHeap(0, FALSE, FALSE, 0) EXCEPT ![1].values = elems,
                                     ![1].numOfHeapPtr = HeapPtrs(elems)]
\* arrays of ints and strings
ExElems == UNION {[1..len -> {IntVal(0), ObjVal(3)}] : len \in 0..MaxLen}
ExVals ==
  {NilVal, BoolVal(TRUE), DoubleVal(1)}
    \cup {IntVal(i) : i \in -1..(MaxLen + 1)}
    \cup {ObjVal(p) : p \in ExObjects}

ObjType(x) == IF isObj(x) THEN ex.heap[x.v].type ELSE "NONE"
isArray(x) == ObjType(x) = "ARRAY"
isInstance(x) == ObjType(x) = "INSTANCE"
isNumber(x) == isDouble(x) \/ isInt(x)

\* the operand bytes of INCREMENT: sign, prefix or postfix, and the kind of
\* place (0: local, 2 and 3: global, 4: field by name, 6: bracket)
IncArg(sign, isPrefix, type) == [sign |-> sign, isPrefix |-> isPrefix, type |-> type]

ExInput(op, objs, operands) ==
  [pc |-> "input", op |-> op, heap |-> objs, stack |-> operands,
   input |-> operands, name |-> "", argc |-> 0, arg |-> IncArg(1, FALSE, 0),
   frameCount |-> 1, err |-> 0, oob |-> FALSE, child |-> [pc |-> "none"],
   index |-> 0, globals |-> <<>>]

\* runtimeError(err, code): the instruction is abandoned
Throw(code) == [ex EXCEPT !.pc = "done", !.err = code]

\* pop() n times
ExPopped(n) == SubSeq(ex.stack, 1, Len(ex.stack) - n)
ExPeek(n) == ex.stack[Len(ex.stack) - n]

\* index > arr->values.size() - 1, an unsigned comparison: for the empty array
\* size() - 1 is the largest uInt64, which no index exceeds
IndexAbove(index, len) == IF len = 0 THEN FALSE ELSE index > len - 1

\* checkArrayBounds: the code it throws for field as index into arr, 0 if none
checkArrayBounds(field, arr) ==
  IF ~isInt(field) THEN 3
  ELSE IF field.v < 0 \/ IndexAbove(field.v, Len(ex.heap[arr].values)) THEN 9
  ELSE 0

InBounds(index, arr) == index >= 0 /\ index < Len(ex.heap[arr].values)

\* what a read of arr->values[index] yields: the element, or anything at all
\* when the index is outside the array
ElementRead(index, arr) ==
  IF InBounds(index, arr) THEN {ex.heap[arr].values[index + 1]} ELSE {NilVal, IntVal(0)}

\* GET: field = pop(), callee = pop()
ExGet ==
  /\ ex.pc = "input" /\ ex.op = "GET"
  /\ LET field == ExPeek(0)
         callee == ExPeek(1)
     IN IF isArray(callee)
        THEN IF checkArrayBounds(field, callee.v) # 0
             THEN ex' = Throw(checkArrayBounds(field, callee.v))
             ELSE \E elem \in ElementRead(field.v, callee.v) :
                    ex' = [ex EXCEPT !.pc = "done", !.stack = Append(ExPopped(2), elem),
                                     !.oob = ~InBounds(field.v, callee.v)]
        ELSE IF isInstance(callee) /\ ex.heap[callee.v].klass = 0
        THEN IF ObjType(field) # "STRING" THEN ex' = Throw(3)
             ELSE IF ex.heap[field.v].str \in DOMAIN ex.heap[callee.v].fields
             THEN ex' = [ex EXCEPT !.pc = "done",
                           !.stack = Append(ExPopped(2),
                                            ex.heap[callee.v].fields[ex.heap[field.v].str])]
             ELSE ex' = Throw(4)
        ELSE ex' = Throw(3)
  /\ UNCHANGED <<tvars, uv, sw, cc, nb, rc, fr, cp, pj, fe, co>>

\* SET: field = pop(), callee = pop(), val = peek(0)
ExSet ==
  /\ ex.pc = "input" /\ ex.op = "SET"
  /\ LET field == ExPeek(0)
         callee == ExPeek(1)
         val == ExPeek(2)
     IN IF isArray(callee)
        THEN IF checkArrayBounds(field, callee.v) # 0
             THEN ex' = Throw(checkArrayBounds(field, callee.v))
             ELSE \E old \in ElementRead(field.v, callee.v) :
                    LET count == ex.heap[callee.v].numOfHeapPtr
                        counted == CASE isObj(val) /\ ~isObj(old) -> count + 1
                                     [] ~isObj(val) /\ isObj(old) -> count - 1
                                     [] OTHER -> count
                    IN IF InBounds(field.v, callee.v)
                       THEN ex' = [ex EXCEPT !.pc = "done", !.stack = ExPopped(2),
                                     !.heap[callee.v].numOfHeapPtr = counted,
                                     !.heap[callee.v].values[field.v + 1] = val]
                       ELSE ex' = [ex EXCEPT !.pc = "done", !.stack = ExPopped(2),
                                     !.heap[callee.v].numOfHeapPtr = counted,
                                     !.oob = TRUE]
        ELSE IF isInstance(callee) /\ ex.heap[callee.v].klass = 0
        THEN IF ObjType(field) # "STRING" THEN ex' = Throw(3)
             ELSE ex' = [ex EXCEPT !.pc = "done", !.stack = ExPopped(2),
                           !.heap[callee.v].fields =
                              [n \in DOMAIN @ \cup {ex.heap[field.v].str} |->
                                 IF n = ex.heap[field.v].str THEN val ELSE @[n]]]
        ELSE ex' = Throw(3)
  /\ UNCHANGED <<tvars, uv, sw, cc, nb, rc, fr, cp, pj, fe, co>>

\* the loop of CREATE_ARRAY: val = pop(); numOfHeapPtr++ for a heap pointer;
\* values[size - i - 1] = val
RECURSIVE CreateArrayLoop(_, _, _, _)
CreateArrayLoop(i, size, stk, arr) ==
  IF i >= size THEN [stack |-> stk, arr |-> arr]
  ELSE LET val == stk[Len(stk)]
       IN CreateArrayLoop(i + 1, size, SubSeq(stk, 1, Len(stk) - 1),
            [arr EXCEPT !.numOfHeapPtr = IF isObj(val) THEN @ + 1 ELSE @,
                        !.values[size - i] = val])

\* CREATE_ARRAY size: new ObjArray(size), filled from the stack, is pushed
ExCreateArray ==
  /\ ex.pc = "input" /\ ex.op = "CREATE_ARRAY"
  /\ LET size == ex.argc
         made == CreateArrayLoop(0, size, ex.stack,
                   [ExObj("ARRAY") EXCEPT !.values = [i \in 1..size |-> NilVal]])
     IN ex' = [ex EXCEPT !.pc = "done", !.heap = Append(ex.heap, made.arr),
                         !.stack = Append(made.stack, ObjVal(Len(ex.heap) + 1))]
  /\ UNCHANGED <<tvars, uv, sw, cc, nb, rc, fr, cp, pj, fe, co>>

\* SET_PROPERTY / SET_PROPERTY_LONG name: inst = pop(), the value stays
ExSetProperty ==
  /\ ex.pc = "input" /\ ex.op = "SET_PROPERTY"
  /\ LET inst == ExPeek(0)
         val == ExPeek(1)
     IN IF ~isInstance(inst) THEN ex' = Throw(3)
        ELSE ex' = [ex EXCEPT !.pc = "done", !.stack = ExPopped(1),
                      !.heap[inst.v].fields =
                         [n \in DOMAIN @ \cup {ex.name} |->
                            IF n = ex.name THEN val ELSE @[n]]]
  /\ UNCHANGED <<tvars, uv, sw, cc, nb, rc, fr, cp, pj, fe, co>>

INT_MAX == 2 ^ (IntBits - 1) - 1
INT_MIN == -(2 ^ (IntBits - 1))

\* the int an out-of-range result wraps to
Wrap(n) == ((n - INT_MIN) % (2 ^ IntBits)) + INT_MIN

\* the lambda add of INCREMENT: encodeInt(decodeInt(x) + y) for an int
IncAdd(x, y) == IF isInt(x) THEN IntVal(Wrap(x.v + y)) ELSE DoubleVal(x.v + y)

\* tryIncrement on a place holding val: what it pushes and what it stores
IncPushed(val) == IF ex.arg.isPrefix THEN IncAdd(val, ex.arg.sign) ELSE val
IncStored(val) == IncAdd(val, ex.arg.sign)

\* INCREMENT of a local slot (type 0); the slot is the first stack entry
ExIncrementLocal ==
  /\ ex.pc = "input" /\ ex.op = "INCREMENT" /\ ex.arg.type = 0
  /\ LET num == ex.stack[1]
     IN IF ObjType(num) = "UPVALUE"
        THEN LET temp == ex.heap[num.v].values[1]
             IN IF ~isNumber(temp) THEN ex' = Throw(3)
                ELSE ex' = [ex EXCEPT !.pc = "done",
                              !.stack = Append(ex.stack, IncPushed(temp)),
                              !.heap[num.v].values[1] = IncStored(temp)]
        ELSE IF ~isNumber(num) THEN ex' = Throw(3)
        ELSE ex' = [ex EXCEPT !.pc = "done",
                      !.stack = Append([ex.stack EXCEPT ![1] = IncStored(num)],
                                       IncPushed(num))]
  /\ UNCHANGED <<tvars, uv, sw, cc, nb, rc, fr, cp, pj, fe, co>>

\* the indexes of vm->globals the model keeps: the ends of the one-byte and
\* of the two-byte range and their neighbours
GlobalIndexes == {0, 1, 255, 256, 257, 511, 65535}
\* the operand bytes Compiler::visitUnaryExpr emits for a global: kind 2 and
\* one byte up to SHORT_CONSTANT_LIMIT, kind 3 and two bytes above
GlobalKind(index) == IF index > SHORT_CONSTANT_LIMIT THEN 3 ELSE 2
\* a value narrowed to byte
AsByte(n) == n % 256

\* INCREMENT of a global (type 2: byte index = READ_BYTE(); type 3: byte
\* index = READ_SHORT())
ExIncrementGlobal ==
  /\ ex.pc = "input" /\ ex.op = "INCREMENT" /\ ex.arg.type \in {2, 3}
  /\ LET index == AsByte(ex.index)
         val == ex.globals[index]
     IN IF ~isNumber(val) THEN ex' = Throw(3)
        ELSE ex' = [ex EXCEPT !.pc = "done",
                      !.stack = Append(ex.stack, IncPushed(val)),
                      !.globals[index] = IncStored(val)]
  /\ UNCHANGED <<tvars, uv, sw, cc, nb, rc, fr, cp, pj, fe, co>>

\* INCREMENT of a field by name (types 4 and 5): inst = pop(), name an operand
ExIncrementField ==
  /\ ex.pc = "input" /\ ex.op = "INCREMENT" /\ ex.arg.type = 4
  /\ LET inst == ExPeek(0)
     IN IF ~isInstance(inst) THEN ex' = Throw(3)
        ELSE IF ex.name \notin DOMAIN ex.heap[inst.v].fields THEN ex' = Throw(4)
        ELSE LET num == ex.heap[inst.v].fields[ex.name]
             IN IF ~isNumber(num) THEN ex' = Throw(3)
                ELSE ex' = [ex EXCEPT !.pc = "done",
                              !.stack = Append(ExPopped(1), IncPushed(num)),
                              !.heap[inst.v].fields[ex.name] = IncStored(num)]
  /\ UNCHANGED <<tvars, uv, sw, cc, nb, rc, fr, cp, pj, fe, co>>

\* INCREMENT through brackets (type 6): field = pop(), callee = pop()
ExIncrementBracket ==
  /\ ex.pc = "input" /\ ex.op = "INCREMENT" /\ ex.arg.type = 6
  /\ LET field == ExPeek(0)
         callee == ExPeek(1)
     IN IF isArray(callee)
        THEN IF checkArrayBounds(field, callee.v) # 0
             THEN ex' = Throw(checkArrayBounds(field, callee.v))
             ELSE \E num \in ElementRead(field.v, callee.v) :
                    IF ~isNumber(num) THEN ex' = Throw(3)
                    ELSE IF InBounds(field.v, callee.v)
                    THEN ex' = [ex EXCEPT !.pc = "done",
                                  !.stack = Append(ExPopped(2), IncPushed(num)),
                                  !.heap[callee.v].values[field.v + 1] = IncStored(num)]
                    ELSE ex' = [ex EXCEPT !.pc = "done", !.oob = TRUE,
                                  !.stack = Append(ExPopped(2), IncPushed(num))]
        ELSE IF ~isInstance(callee) THEN ex' = Throw(3)
        ELSE IF ObjType(field) # "STRING" THEN ex' = Throw(3)
        ELSE IF ex.heap[field.v].str \notin DOMAIN ex.heap[callee.v].fields
        THEN ex' = Throw(4)
        ELSE LET num == ex.heap[callee.v].fields[ex.heap[field.v].str]
             IN IF ~isNumber(num) THEN ex' = Throw(3)
                ELSE ex' = [ex EXCEPT !.pc = "done",
                              !.stack = Append(ExPopped(2), IncPushed(num)),
                              !.heap[callee.v].fields[ex.heap[field.v].str] = IncStored(num)]
  /\ UNCHANGED <<tvars, uv, sw, cc, nb, rc, fr, cp, pj, fe, co>>

\* call frames a thread can hold, scaled down from FRAMES_MAX
FramesMax == 3

\* Thread::call pushing the frame without comparing argCount to the arity
callAnyArity(closure, argCount, operands, objs) ==
  IF ex.frameCount = FramesMax THEN Throw(1)
  ELSE [ex EXCEPT !.pc = "done", !.stack = operands, !.heap = objs,
                  !.frameCount = ex.frameCount + 1]

\* Thread::call(closure, argCount) with the stack as given: arity, then room
\* for a frame, then the frame
call(closure, argCount, operands, objs) ==
  IF argCount # ex.heap[closure].arity THEN Throw(2)
  ELSE IF ex.frameCount = FramesMax THEN Throw(1)
  ELSE [ex EXCEPT !.pc = "done", !.stack = operands, !.heap = objs,
                  !.frameCount = ex.frameCount + 1]

\* a native ran: callee and arguments are replaced by its result
NativeDone(argCount, operands) ==
  [ex EXCEPT !.pc = "done",
             !.stack = Append(SubSeq(operands, 1, Len(operands) - argCount - 1), NilVal)]

\* the stack with stackTop[-argCount - 1] = val
WithReceiver(argCount, val) == [ex.stack EXCEPT ![Len(ex.stack) - argCount] = val]

\* Thread::callValue(callee, argCount)
callValue(callee, argCount) ==
  CASE ObjType(callee) = "CLOSURE" -> call(callee.v, argCount, ex.stack, ex.heap)
    [] ObjType(callee) = "NATIVE" ->
         IF ex.heap[callee.v].arity # -1 /\ argCount # ex.heap[callee.v].arity
         THEN Throw(2) ELSE NativeDone(argCount, ex.stack)
    [] ObjType(callee) = "BOUND_NATIVE" ->
         IF ex.heap[callee.v].arity # -1 /\ argCount # ex.heap[callee.v].arity
         THEN Throw(2)
         ELSE NativeDone(argCount, WithReceiver(argCount, ex.heap[callee.v].receiver))
    [] ObjType(callee) = "CLASS" ->
         LET objs == Append(ex.heap, [ExObj("INSTANCE") EXCEPT !.klass = callee.v])
             operands == WithReceiver(argCount, ObjVal(Len(ex.heap) + 1))
         IN IF ex.heap[callee.v].str \in ex.heap[callee.v].methods
            THEN call(4, argCount, operands, objs)
            ELSE IF argCount # 0 THEN Throw(2)
            ELSE [ex EXCEPT !.pc = "done", !.stack = operands, !.heap = objs]
    [] ObjType(callee) = "BOUND_METHOD" ->
         call(ex.heap[callee.v].method, argCount,
              WithReceiver(argCount, ex.heap[callee.v].receiver), ex.heap)
    [] OTHER -> Throw(3)

\* CALL argCount: callValue(peek(argCount), argCount)
ExCall ==
  /\ ex.pc = "input" /\ ex.op = "CALL"
  /\ ex' = callValue(ExPeek(ex.argc), ex.argc)
  /\ UNCHANGED <<tvars, uv, sw, cc, nb, rc, fr, cp, pj, fe, co>>

\* a Thread t after copyVal(future) and startThread(callee and arguments):
\* its stack, its frames (closure and base slot) and what callValue threw
ExChild(cstack, frames, err) ==
  [pc |-> "new", stack |-> cstack, frames |-> frames, err |-> err, registered |-> FALSE]

\* Thread::call on the new thread, which has no frame yet
callInChild(cstack, closure, argCount) ==
  IF argCount # ex.heap[closure].arity THEN ExChild(cstack, <<>>, 2)
  ELSE ExChild(cstack, <<[closure |-> closure, slots |-> Len(cstack) - argCount]>>, 0)

\* Thread::startThread(otherStack, num): memcpy of callee and arguments above
\* the future, then callValue(callee, num - 1) on the new thread's stack
startThread(future, callee, args) ==
  LET argCount == Len(args)
      copied == <<future, callee>> \o args
      ran == <<future, NilVal>>
  IN CASE ObjType(callee) = "CLOSURE" -> callInChild(copied, callee.v, argCount)
       [] ObjType(callee) \in {"NATIVE", "BOUND_NATIVE"} ->
            IF ex.heap[callee.v].arity # -1 /\ argCount # ex.heap[callee.v].arity
            THEN ExChild(copied, <<>>, 2) ELSE ExChild(ran, <<>>, 0)
       [] ObjType(callee) = "CLASS" ->
            LET made == [copied EXCEPT ![2] = ObjVal(Len(ex.heap) + 2)]
            IN IF ex.heap[callee.v].str \in ex.heap[callee.v].methods
               THEN callInChild(made, 4, argCount)
               ELSE IF argCount # 0 THEN ExChild(made, <<>>, 2)
               ELSE ExChild(made, <<>>, 0)
       [] ObjType(callee) = "BOUND_METHOD" ->
            callInChild([copied EXCEPT ![2] = ex.heap[callee.v].receiver],
                        ex.heap[callee.v].method, argCount)
       [] OTHER -> ExChild(copied, <<>>, 3)

\* LAUNCH_ASYNC argCount: new Thread, new ObjFuture(t), copyVal, startThread,
\* stackTop -= argCount + 1, childThreads.push_back(t) under vm->mtx,
\* startParallelExecution, push(future).  An error thrown by startThread
\* leaves the instruction there.  A thread started without a frame reads
\* frames[-1] when it enters executeBytecode.
ExLaunchAsync ==
  /\ ex.pc = "input" /\ ex.op = "LAUNCH_ASYNC"
  /\ LET future == ObjVal(Len(ex.heap) + 1)
         callee == ExPeek(ex.argc)
         args == SubSeq(ex.stack, Len(ex.stack) - ex.argc + 1, Len(ex.stack))
         t == startThread(future, callee, args)
         objs == Append(ex.heap, ExObj("FUTURE"))
                   \o (IF ObjType(callee) = "CLASS"
                       THEN <<[ExObj("INSTANCE") EXCEPT !.klass = callee.v]>> ELSE <<>>)
     IN IF t.err # 0
        THEN ex' = [Throw(t.err) EXCEPT !.heap = objs, !.child = t]
        ELSE ex' = [ex EXCEPT !.pc = "done", !.heap = objs,
                      !.stack = Append(ExPopped(ex.argc + 1), future),
                      !.child = [t EXCEPT !.registered = TRUE,
                                          !.pc = IF t.frames = <<>> THEN "wild" ELSE "run"]]
  /\ UNCHANGED <<tvars, uv, sw, cc, nb, rc, fr, cp, pj, fe, co>>

\* the builtin method tables vm->nativeClasses: the class of a receiver and the
\* names each class has
BuiltinOf(receiver) ==
  IF ObjType(receiver) \in {"STRING", "ARRAY", "FILE", "MUTEX", "FUTURE"}
  THEN ObjType(receiver) ELSE "COMMON"
BuiltinMethods(type) == IF type = "COMMON" THEN {"c"} ELSE {"g"}

\* Thread::findNativeMethod returning a method for every name
findNativeMethodAny(receiver, name) == TRUE

\* Thread::findNativeMethod: found, or runtime error 4
findNativeMethod(receiver, name) == name \in BuiltinMethods(BuiltinOf(receiver))

\* Thread::bindMethodToPrimitive on the stack operands
bindMethodToPrimitive(receiver, name, operands) ==
  IF findNativeMethod(receiver, name)
  THEN [ex EXCEPT !.pc = "done",
                  !.heap = Append(ex.heap, [ExObj("BOUND_NATIVE") EXCEPT
                                              !.receiver = receiver, !.str = name]),
                  !.stack = Append(operands, ObjVal(Len(ex.heap) + 1))]
  ELSE Throw(4)

\* Thread::bindMethod(klass, name) succeeding on the stack operands: the new
\* ObjBoundMethod takes peek(0) as receiver and replaces the top of the stack
bindMethod(klass, name, operands) ==
  [ex EXCEPT !.pc = "done",
             !.heap = Append(ex.heap, [ExObj("BOUND_METHOD") EXCEPT
                                         !.receiver = operands[Len(operands)],
                                         !.method = 4, !.str = name]),
             !.stack = [operands EXCEPT ![Len(operands)] = ObjVal(Len(ex.heap) + 1)]]

\* GET_PROPERTY / GET_PROPERTY_LONG name: inst = pop()
ExGetProperty ==
  /\ ex.pc = "input" /\ ex.op = "GET_PROPERTY"
  /\ LET inst == ExPeek(0)
     IN IF isInstance(inst) /\ ex.name \in DOMAIN ex.heap[inst.v].fields
        THEN ex' = [ex EXCEPT !.pc = "done",
                      !.stack = Append(ExPopped(1), ex.heap[inst.v].fields[ex.name])]
        ELSE IF /\ isInstance(inst) /\ ex.heap[inst.v].klass # 0
                /\ ex.name \in ex.heap[ex.heap[inst.v].klass].methods
        THEN ex' = bindMethod(ex.heap[inst.v].klass, ex.name, ExPopped(1))
        ELSE ex' = bindMethodToPrimitive(inst, ex.name, ExPopped(1))
  /\ UNCHANGED <<tvars, uv, sw, cc, nb, rc, fr, cp, pj, fe, co>>

\* GET_SUPER / GET_SUPER_LONG name: superclass = asClass(pop())
ExGetSuper ==
  /\ ex.pc = "input" /\ ex.op = "GET_SUPER"
  /\ LET superclass == ExPeek(0).v
     IN IF ex.name \in ex.heap[superclass].methods
        THEN ex' = bindMethod(superclass, ex.name, ExPopped(1))
        ELSE ex' = Throw(4)
  /\ UNCHANGED <<tvars, uv, sw, cc, nb, rc, fr, cp, pj, fe, co>>

\* SUPER_INVOKE / SUPER_INVOKE_LONG argCount name: superclass = asClass(pop()),
\* then invokeFromClass
ExSuperInvoke ==
  /\ ex.pc = "input" /\ ex.op = "SUPER_INVOKE"
  /\ LET superclass == ExPeek(0).v
     IN IF ex.name \in ex.heap[superclass].methods
        THEN ex' = call(4, ex.argc, ExPopped(1), ex.heap)
        ELSE ex' = Throw(4)
  /\ UNCHANGED <<tvars, uv, sw, cc, nb, rc, fr, cp, pj, fe, co>>

\* a / b and a % b on ints, b not 0: the quotient is truncated toward zero
\* and the remainder has the sign of the dividend
TruncDiv(a, b) ==
  LET q == (IF a < 0 THEN -a ELSE a) \div (IF b < 0 THEN -b ELSE b)
  IN IF (a < 0) # (b < 0) THEN -q ELSE q
TruncMod(a, b) == a - b * TruncDiv(a, b)

\* valA / valB on doubles: an integer when the quotient is one, else the
\* fraction; a zero divisor gives an infinity or, for 0 / 0, a NaN
Ratio(a, b) ==
  IF b = 0 THEN [num |-> (IF a > 0 THEN 1 ELSE IF a < 0 THEN -1 ELSE 0), den |-> 0]
  ELSE IF TruncMod(a, b) = 0 THEN TruncDiv(a, b)
  ELSE [num |-> a, den |-> b]

\* the mathematical result of a op b
Apply(op, a, b) ==
  CASE op = "ADD" -> a + b
    [] op = "SUBTRACT" -> a - b
    [] op = "MULTIPLY" -> a * b
    [] op = "DIVIDE" -> Ratio(a, b)

\* int64_t res = decodeInt(a) op decodeInt(b): the operation is done on two
\* ints, and its overflow is undefined.  A build either wraps the int before
\* it is widened or computes in the wider type.
IntResults(op, a, b) ==
  IF INT_MIN <= Apply(op, a, b) /\ Apply(op, a, b) <= INT_MAX
  THEN {Apply(op, a, b)}
  ELSE {Wrap(Apply(op, a, b)), Apply(op, a, b)}

\* BINARY_OP(op) on a = peek(1), b = peek(0) for the result res of the int
\* operation
BINARY_OP(op, res) ==
  LET a == ExPeek(1)
      b == ExPeek(0)
  IN IF ~isNumber(a) \/ ~isNumber(b) THEN Throw(3)
     ELSE [ex EXCEPT !.pc = "done",
             !.stack = Append(ExPopped(2),
                 IF isInt(a) /\ isInt(b)
                 THEN (IF INT_MIN <= res /\ res <= INT_MAX THEN IntVal(res)
                       ELSE DoubleVal(res))
                 ELSE DoubleVal(Apply(op, a.v, b.v)))]

\* ObjString::concat
concat(a, b) == [ExObj("STRING") EXCEPT !.str = ex.heap[a].str \o ex.heap[b].str]

\* the results the int operation of this instruction can have
ExIntResults ==
  IF isInt(ExPeek(1)) /\ isInt(ExPeek(0))
  THEN IntResults(ex.op, ExPeek(1).v, ExPeek(0).v) ELSE {0}

ExAdd ==
  /\ ex.pc = "input" /\ ex.op = "ADD"
  /\ IF isNumber(ExPeek(0)) /\ isNumber(ExPeek(1))
     THEN \E res \in ExIntResults : ex' = BINARY_OP("ADD", res)
     ELSE IF ObjType(ExPeek(0)) = "STRING" /\ ObjType(ExPeek(1)) = "STRING"
     THEN ex' = [ex EXCEPT !.pc = "done",
                   !.heap = Append(ex.heap, concat(ExPeek(1).v, ExPeek(0).v)),
                   !.stack = Append(ExPopped(2), ObjVal(Len(ex.heap) + 1))]
     ELSE ex' = Throw(3)
  /\ UNCHANGED <<tvars, uv, sw, cc, nb, rc, fr, cp, pj, fe, co>>

ExSubtract ==
  /\ ex.pc = "input" /\ ex.op = "SUBTRACT"
  /\ \E res \in ExIntResults : ex' = BINARY_OP("SUBTRACT", res)
  /\ UNCHANGED <<tvars, uv, sw, cc, nb, rc, fr, cp, pj, fe, co>>

ExMultiply ==
  /\ ex.pc = "input" /\ ex.op = "MULTIPLY"
  /\ \E res \in ExIntResults : ex' = BINARY_OP("MULTIPLY", res)
  /\ UNCHANGED <<tvars, uv, sw, cc, nb, rc, fr, cp, pj, fe, co>>

\* the instruction traps: the signal ends the interpreter
Fault == [ex EXCEPT !.pc = "fault"]

\* decodeInt(a) / decodeInt(b) and decodeInt(a) % decodeInt(b): a zero
\* divisor and the pair (INT_MIN, -1) are undefined.  A build traps (the
\* division instruction raises a signal), or its division instruction gives
\* quotient 0 for the zero divisor and the wrapped quotient for
\* (INT_MIN, -1), or it divides in the wider type of res.
DivOutcomes(op, a, b) ==
  LET Res(r) == [trap |-> FALSE, res |-> r]
      Trap == [trap |-> TRUE, res |-> 0]
  IN IF b = 0
     THEN {Trap, Res(IF op = "DIVIDE" THEN 0 ELSE a)}
     ELSE IF a = INT_MIN /\ b = -1
     THEN {Trap} \cup (IF op = "DIVIDE" THEN {Res(INT_MIN), Res(-INT_MIN)}
                       ELSE {Res(0)})
     ELSE {Res(IF op = "DIVIDE" THEN TruncDiv(a, b) ELSE TruncMod(a, b))}

\* DIVIDE: BINARY_OP(/)
ExDivide ==
  /\ ex.pc = "input" /\ ex.op = "DIVIDE"
  /\ IF isInt(ExPeek(1)) /\ isInt(ExPeek(0))
     THEN \E o \in DivOutcomes("DIVIDE", ExPeek(1).v, ExPeek(0).v) :
            ex' = IF o.trap THEN Fault ELSE BINARY_OP("DIVIDE", o.res)
     ELSE ex' = BINARY_OP("DIVIDE", 0)
  /\ UNCHANGED <<tvars, uv, sw, cc, nb, rc, fr, cp, pj, fe, co>>

\* INT_BINARY_OP(op) on a = peek(1), b = peek(0) for the result res
INT_BINARY_OP(res) ==
  [ex EXCEPT !.pc = "done", !.stack = Append(ExPopped(2), IntVal(res))]

\* MOD: INT_BINARY_OP(%)
ExMod ==
  /\ ex.pc = "input" /\ ex.op = "MOD"
  /\ IF ~isInt(ExPeek(1)) \/ ~isInt(ExPeek(0)) THEN ex' = Throw(3)
     ELSE \E o \in DivOutcomes("MOD", ExPeek(1).v, ExPeek(0).v) :
            ex' = IF o.trap THEN Fault ELSE INT_BINARY_OP(o.res)
  /\ UNCHANGED <<tvars, uv, sw, cc, nb, rc, fr, cp, pj, fe, co>>

\* NEGATE: val = pop(); an int is pushed as encodeInt(-decodeInt(val))
ExNegate ==
  /\ ex.pc = "input" /\ ex.op = "NEGATE"
  /\ LET val == ExPeek(0)
     IN IF ~isNumber(val) THEN ex' = Throw(3)
        ELSE ex' = [ex EXCEPT !.pc = "done",
                      !.stack = Append(ExPopped(1),
                                       IF isInt(val) THEN IntVal(Wrap(-val.v))
                                       ELSE DoubleVal(-val.v))]
  /\ UNCHANGED <<tvars, uv, sw, cc, nb, rc, fr, cp, pj, fe, co>>

\* the numbers at the ends and in the middle of the int range, and non-numbers
ArithVals ==
  {IntVal(n) : n \in {INT_MIN, INT_MIN + 1, -1, 0, 1, INT_MAX - 1, INT_MAX}}
    \cup {DoubleVal(1), NilVal, ObjVal(2), ObjVal(3)}

\* the values indexed by GET, SET and the bracket INCREMENT: the array, a
\* string, a closure, the instance, the struct, and two that are no object
ExCallees == {ObjVal(1), ObjVal(2), ObjVal(4), ObjVal(9), ObjVal(10), NilVal, IntVal(0)}

\* argCount arguments
ExArgs(argCount) == [i \in 1..argCount |-> IntVal(0)]

ExInputs ==
  {ExInput(op, ExHeap(len, hasField, FALSE, 0), <<IntVal(1), callee, field>>) :
      op \in {"GET", "SET"}, len \in 0..MaxLen, hasField \in BOOLEAN,
      callee \in ExCallees, field \in ExVals}
  \cup
  {ExInput("SET", ExArrayHeap(elems), <<val, ObjVal(1), IntVal(index)>>) :
      elems \in ExElems, val \in {IntVal(1), ObjVal(2)}, index \in 0..MaxLen}
  \cup
  {[ExInput("INCREMENT", ExArrayHeap(elems), <<ObjVal(1), IntVal(index)>>)
      EXCEPT !.arg = IncArg(1, FALSE, 6)] :
      elems \in ExElems, index \in 0..MaxLen}
  \cup
  {[ExInput("CREATE_ARRAY", ExHeap(0, FALSE, FALSE, 0), <<NilVal>> \o elems)
      EXCEPT !.argc = Len(elems)] : elems \in ExElems}
  \cup
  {[ExInput("INCREMENT", ExHeap(len, hasField, FALSE, 0), <<callee, field>>)
      EXCEPT !.arg = IncArg(sign, isPrefix, 6)] :
      len \in 0..MaxLen, hasField \in BOOLEAN, callee \in ExCallees, field \in ExVals,
      sign \in {1, -1}, isPrefix \in BOOLEAN}
  \cup
  {[ExInput("INCREMENT", ExHeap(0, hasField, FALSE, 0), <<inst>>)
      EXCEPT !.arg = IncArg(sign, isPrefix, 4), !.name = name] :
      hasField \in BOOLEAN, inst \in ExVals, name \in ExNames,
      sign \in {1, -1}, isPrefix \in BOOLEAN}
  \cup
  {[ExInput("INCREMENT", ExHeap(0, FALSE, FALSE, 0), <<num>>)
      EXCEPT !.arg = IncArg(sign, isPrefix, 0)] :
      num \in ArithVals \cup {ObjVal(12)}, sign \in {1, -1}, isPrefix \in BOOLEAN}
  \cup
  {[ExInput("CALL", ExHeap(0, FALSE, hasMethod, arity), <<callee>> \o ExArgs(argc))
      EXCEPT !.argc = argc, !.frameCount = frames] :
      hasMethod \in BOOLEAN, arity \in 0..MaxArity, argc \in 0..MaxArity,
      callee \in ExVals, frames \in {1, FramesMax}}
  \cup
  {[ExInput("GET_PROPERTY", ExHeap(0, hasField, hasMethod, 0), <<NilVal, inst>>)
      EXCEPT !.name = name] :
      hasField \in BOOLEAN, hasMethod \in BOOLEAN, inst \in ExVals, name \in ExNames}
  \cup
  {[ExInput("SET_PROPERTY", ExHeap(0, hasField, FALSE, 0), <<IntVal(1), inst>>)
      EXCEPT !.name = name] :
      hasField \in BOOLEAN, inst \in ExVals, name \in ExNames}
  \cup
  {[ExInput("LAUNCH_ASYNC", ExHeap(0, FALSE, hasMethod, arity),
            <<IntVal(1), callee>> \o ExArgs(argc))
      EXCEPT !.argc = argc] :
      hasMethod \in BOOLEAN, arity \in 0..MaxArity, argc \in 0..MaxArity,
      callee \in ExVals}
  \cup
  {[ExInput("INCREMENT", ExHeap(0, FALSE, FALSE, 0), <<>>)
      EXCEPT !.arg = IncArg(sign, isPrefix, GlobalKind(index)), !.index = index,
             !.globals = [i \in GlobalIndexes |-> IF i = 1 THEN NilVal ELSE IntVal(0)]] :
      index \in GlobalIndexes, sign \in {1, -1}, isPrefix \in BOOLEAN}
  \cup
  {[ExInput("GET_SUPER", ExHeap(0, FALSE, hasMethod, 0), <<ObjVal(9), ObjVal(8)>>)
      EXCEPT !.name = name] :
      hasMethod \in BOOLEAN, name \in ExNames}
  \cup
  {[ExInput("SUPER_INVOKE", ExHeap(0, FALSE, hasMethod, arity),
            <<ObjVal(9)>> \o ExArgs(argc) \o <<ObjVal(8)>>)
      EXCEPT !.name = name, !.argc = argc] :
      hasMethod \in BOOLEAN, arity \in 0..MaxArity, argc \in 0..MaxArity,
      name \in ExNames}
  \cup
  {ExInput(op, ExHeap(0, FALSE, FALSE, 0), <<a, b>>) :
      op \in {"ADD", "SUBTRACT", "MULTIPLY", "DIVIDE", "MOD"},
      a \in ArithVals, b \in ArithVals}
  \cup
  {ExInput("NEGATE", ExHeap(0, FALSE, FALSE, 0), <<a>>) : a \in ArithVals}

InitExec ==
  /\ RuntimeInit
  /\ uv = UvIdle /\ sw = SwIdle /\ cc = CcIdle /\ nb = NbIdle /\ rc = RcIdle /\ fr = FrIdle /\ cp = CpIdle /\ pj = PjIdle /\ fe = FeIdle /\ co = CoIdle
  /\ ex \in ExInputs

NextExec ==
  \/ ExGet \/ ExSet \/ ExSetProperty \/ ExCreateArray
  \/ ExIncrementLocal \/ ExIncrementGlobal \/ ExIncrementField \/ ExIncrementBracket
  \/ ExCall \/ ExLaunchAsync
  \/ ExGetProperty \/ ExGetSuper \/ ExSuperInvoke
  \/ ExAdd \/ ExSubtract \/ ExMultiply \/ ExDivide \/ ExMod \/ ExNegate

SpecExec == InitExec /\ [][NextExec]_vars

\* the instruction indexes an array: its operands callee and field
ArrayOp == ex.op \in {"GET", "SET"} \/ (ex.op = "INCREMENT" /\ ex.arg.type = 6)
InCallee == IF ex.op = "INCREMENT" THEN ex.input[1] ELSE ex.input[2]
InField == IF ex.op = "INCREMENT" THEN ex.input[2] ELSE ex.input[3]

\* C12: array bounds.  GET, SET and bracket INCREMENT on an array of length L
\* with an int index i throw code 9 whenever i < 0 or i >= L, the empty array
\* included, and touch no element outside [0, L); another kind of index throws
\* code 3.
C12_ArrayBounds ==
  (ex.pc = "done" /\ ArrayOp /\ isArray(InCallee)) =>
    /\ ~ex.oob
    /\ ~isInt(InField) => ex.err = 3
    /\ (isInt(InField) /\ ~InBounds(InField.v, InCallee.v)) => ex.err = 9

\* the values callValue accepts
Callable(x) ==
  ObjType(x) \in {"CLOSURE", "NATIVE", "BOUND_NATIVE", "CLASS", "BOUND_METHOD"}

\* C13: CALL argc on a closure whose arity differs from argc signals code 2
\* and pushes no frame; CALL on a value that is no closure, native, bound
\* native, class or bound method signals code 3 and pushes no frame.
C13_CallChecks ==
  [][(ex.pc = "input" /\ ex.op = "CALL") =>
       LET callee == ExPeek(ex.argc)
       IN /\ (ObjType(callee) = "CLOSURE" /\ ex.heap[callee.v].arity # ex.argc) =>
               (ex'.err = 2 /\ ex'.frameCount = ex.frameCount)
          /\ ~Callable(callee) =>
               (ex'.err = 3 /\ ex'.frameCount = ex.frameCount)]_vars

\* a closure of arity 0 was called with one argument while a frame was free
C13_Witness ==
  /\ ex.pc = "done" /\ ex.op = "CALL" /\ ex.argc = 1
  /\ ObjType(ex.input[1]) = "CLOSURE" /\ ex.heap[ex.input[1].v].arity = 0
  /\ ex.frameCount < FramesMax /\ ex.err = 2

\* field name is absent from the instance or struct x
LacksField(x, name) == isInstance(x) /\ name \notin DOMAIN ex.heap[x.v].fields

\* the class of instance x, if it has one, has no method name
LacksMethod(x, name) ==
  ex.heap[x.v].klass = 0 \/ name \notin ex.heap[ex.heap[x.v].klass].methods

\* the instruction looks up a member that does not exist; "c" is the builtin
\* method every value has
MissingMember ==
  \/ /\ ex.op = "GET_PROPERTY" /\ ex.name # "c"
     /\ LacksField(ex.input[2], ex.name) /\ LacksMethod(ex.input[2], ex.name)
  \/ /\ ex.op = "GET" /\ ObjType(InField) = "STRING"
     /\ LacksField(InCallee, ex.heap[InField.v].str) /\ ex.heap[InCallee.v].klass = 0
  \/ /\ ex.op = "INCREMENT" /\ ex.arg.type = 4 /\ LacksField(ex.input[1], ex.name)
  \/ /\ ex.op = "INCREMENT" /\ ex.arg.type = 6 /\ ObjType(InField) = "STRING"
     /\ LacksField(InCallee, ex.heap[InField.v].str)
  \/ /\ ex.op \in {"GET_SUPER", "SUPER_INVOKE"}
     /\ ex.name \notin ex.heap[ex.input[Len(ex.input)].v].methods

\* C14: a lookup of a missing member signals code 4: GET_PROPERTY on an
\* instance without field n whose class, if any, has no method n; GET with a
\* string key absent from a struct; dot or bracket INCREMENT on an absent
\* field; GET_SUPER and SUPER_INVOKE of a method the superclass lacks.
C14_MissingMember == (ex.pc = "done" /\ MissingMember) => ex.err = 4

\* GET_PROPERTY g on the instance of a class whose only method is f
C14_Witness ==
  /\ ex.pc = "done" /\ ex.op = "GET_PROPERTY" /\ ex.name = "g"
  /\ ex.input[2] = ObjVal(9) /\ ex.heap[7].methods = {"f"}
  /\ "f" \in DOMAIN ex.heap[9].fields /\ ex.err = 4

\* the Value the promotion rule gives the mathematical result r: an int inside
\* [INT_MIN, INT_MAX], a double outside (the int width is IntBits here)
Promoted(r) == IF INT_MIN <= r /\ r <= INT_MAX THEN IntVal(r) ELSE DoubleVal(r)

\* a struct: an instance with a null class pointer
Structs == {p \in DOMAIN ex.heap : ex.heap[p].type = "INSTANCE" /\ ex.heap[p].klass = 0}

\* C22: struct field-set invariant.  No instruction adds a key to the field
\* map of a struct: after SET, SET_PROPERTY or INCREMENT the keys of every
\* struct are among the keys it had, which are those of its literal.
C22_StructFields ==
  [][\A p \in Structs : DOMAIN ex'.heap[p].fields \subseteq DOMAIN ex.heap[p].fields]_vars

\* GET_PROPERTY has run on a class instance without the field n whose class
\* has the method n
InInst == ex.input[Len(ex.input)]
BindsMethod ==
  /\ ex.op = "GET_PROPERTY" /\ ex.pc = "done"
  /\ isInstance(InInst) /\ ex.heap[InInst.v].klass # 0
  /\ ex.name \notin DOMAIN ex.heap[InInst.v].fields
  /\ ex.name \in ex.heap[ex.heap[InInst.v].klass].methods

\* C23: GET_PROPERTY method binding.  The slot that held the instance I then
\* holds a bound method with receiver I and the class's closure; the stack
\* is as high as before and the slots below I's are unchanged.
C23_BindsInPlace ==
  BindsMethod =>
    /\ Len(ex.stack) = Len(ex.input)
    /\ ObjType(ex.stack[Len(ex.stack)]) = "BOUND_METHOD"
    /\ ex.heap[ex.stack[Len(ex.stack)].v].receiver = InInst
    /\ SubSeq(ex.stack, 1, Len(ex.input) - 1) = SubSeq(ex.input, 1, Len(ex.input) - 1)

\* C28: LAUNCH_ASYNC effect.  After LAUNCH_ASYNC argc with callee c and
\* arguments a1..an on top of the parent's stack the child's stack is
\* [future, c, a1, ..., an] with its frame 0 based at the slot of c, the
\* parent's stack has c and the arguments replaced by the future above
\* unchanged lower slots, and the child is registered in childThreads
\* before it runs.
C28_LaunchAsync ==
  (ex.op = "LAUNCH_ASYNC" /\ ex.pc = "done" /\ ex.err = 0) =>
    LET future == ex.stack[Len(ex.stack)]
    IN /\ ObjType(future) = "FUTURE"
       /\ ex.stack = Append(SubSeq(ex.input, 1, Len(ex.input) - ex.argc - 1), future)
       /\ ex.child.stack = <<future>> \o SubSeq(ex.input, Len(ex.input) - ex.argc,
                                                 Len(ex.input))
       /\ Len(ex.child.frames) = 1 /\ ex.child.frames[1].slots = 2
       /\ ex.child.registered /\ ex.child.pc = "run"

\* C30: INCREMENT.  For a global, short or long, for every index from 0 to
\* 65535, INCREMENT stores the old value + 1 or - 1 into the slot at the
\* emitted index and into no other, and pushes the new value for prefix
\* and the old one for postfix.
C30_Increment ==
  [][(ex.pc = "input" /\ ex.op = "INCREMENT" /\ ex.arg.type \in {2, 3}
        /\ ex'.pc = "done" /\ isNumber(ex.globals[ex.index])) =>
       LET old == ex.globals[ex.index]
           new == IncAdd(old, ex.arg.sign)
       IN /\ ex'.err = 0
          /\ ex'.globals = [ex.globals EXCEPT ![ex.index] = new]
          /\ ex'.stack = Append(ex.stack, IF ex.arg.isPrefix THEN new ELSE old)]_vars

\* C34: array heap-pointer count.  After CREATE_ARRAY, SET and INCREMENT
\* the numOfHeapPtr of every array is the number of its elements that are
\* heap pointers, and CREATE_ARRAY n has stored the n values in the order
\* they were pushed.
C34_HeapPtrCount ==
  /\ \A o \in DOMAIN ex.heap :
       ex.heap[o].type = "ARRAY" => ex.heap[o].numOfHeapPtr = HeapPtrs(ex.heap[o].values)
  /\ (ex.op = "CREATE_ARRAY" /\ ex.pc = "done") =>
       ex.heap[Len(ex.heap)].values = SubSeq(ex.input, 2, Len(ex.input))

\* the instruction is a binary arithmetic opcode on two numbers
NumericPair ==
  /\ ex.op \in {"ADD", "SUBTRACT", "MULTIPLY", "DIVIDE", "MOD"}
  /\ isNumber(ex.input[1]) /\ isNumber(ex.input[2])

\* the divisor is the int 0, or the operands are the ints INT_MIN and -1
UndefinedPair ==
  /\ ex.op \in {"DIVIDE", "MOD"}
  /\ isInt(ex.input[1]) /\ isInt(ex.input[2])
  /\ ex.input[2].v = 0 \/ (ex.input[1].v = INT_MIN /\ ex.input[2].v = -1)

\* C38: zero divisor.  A binary arithmetic opcode on two numbers, DIVIDE and
\* MOD on two ints with the divisor 0 or on (INT_MIN, -1) included, ends in
\* a defined outcome: a runtime error code with the operands left on the
\* stack, or one number pushed in the place of the two operands.  It never
\* faults the interpreter.
C38_ZeroDivisor ==
  (NumericPair /\ ex.pc # "input") =>
    /\ ex.pc = "done"
    /\ \/ ex.err # 0 /\ ex.stack = ex.input
       \/ ex.err = 0 /\ Len(ex.stack) = 1 /\ isNumber(ex.stack[1])

\* C38 for the pairs on which the division is defined
C38_DefinedPairs ==
  (NumericPair /\ ~UndefinedPair /\ ex.pc # "input") =>
    /\ ex.pc = "done"
    /\ \/ ex.err # 0 /\ ex.stack = ex.input
       \/ ex.err = 0 /\ Len(ex.stack) = 1 /\ isNumber(ex.stack[1])

\* C15: integer overflow promotion.  ADD, SUBTRACT and MULTIPLY on two ints,
\* NEGATE and INCREMENT on an int leave a double holding the mathematical
\* result when it lies outside the int range, and an int with that value
\* otherwise.
C15_OverflowPromotes ==
  (ex.pc = "done" /\ ex.err = 0) =>
    /\ (ex.op \in {"ADD", "SUBTRACT", "MULTIPLY"}
          /\ isInt(ex.input[1]) /\ isInt(ex.input[2])) =>
         ExPeek(0) = Promoted(Apply(ex.op, ex.input[1].v, ex.input[2].v))
    /\ (ex.op = "NEGATE" /\ isInt(ex.input[1])) =>
         ExPeek(0) = Promoted(-ex.input[1].v)
    /\ (ex.op = "INCREMENT" /\ ex.arg.type = 0 /\ isInt(ex.input[1])) =>
         ex.stack[1] = Promoted(ex.input[1].v + ex.arg.sign)

(***************************************************************************)
(* The NaN-boxed Value (SpecValue).                                        *)
(*                                                                         *)
(* A Value is 64 bits, kept here as four 16-bit words: sig, the bits       *)
(* MASK_SIGNATURE selects (sign, 11 exponent bits, the quiet bit and the   *)
(* three type bits), and p2, p1, p0, the 48 payload bits from the top.  A  *)
(* double is its IEEE 754 fields: sign, exp, and the mantissa as the four  *)
(* top bits m and the words p2, p1, p0.                                    *)
(***************************************************************************)
\* the words of Values and the fields of doubles the inputs are drawn from
Word == 65536
Words == {0, 1, Word - 1}
ExpAllOnes == 2047
Exps == {0, 1, 1023, ExpAllOnes - 1, ExpAllOnes}
Tops == {0, 1, 8, 15}
INT32_MAX == 2147483647
INT32_MIN == -INT32_MAX - 1

\* MASK_SIGNATURE_*: the top 16 bits of each signature
SIGNATURE_NAN == 32752
SIGNATURE_FALSE == 32753
SIGNATURE_TRUE == 32754
SIGNATURE_NIL == 32755
SIGNATURE_INT == 32756
SIGNATURE_OBJ == 65520

Bits(sig, p2, p1, p0) == [sig |-> sig, p2 |-> p2, p1 |-> p1, p0 |-> p0]

\* a | b for 16-bit words a and b
RECURSIVE Or(_, _)
Or(a, b) ==
  IF a = 0 THEN b ELSE IF b = 0 THEN a
  ELSE (IF a % 2 = 1 \/ b % 2 = 1 THEN 1 ELSE 0) + 2 * Or(a \div 2, b \div 2)

\* getType(x)
getType(x) ==
  IF (x.sig \div 16) % 2048 # ExpAllOnes THEN "DOUBLE"
  ELSE CASE x.sig = SIGNATURE_NAN -> "DOUBLE"
         [] x.sig \in {SIGNATURE_FALSE, SIGNATURE_TRUE} -> "BOOL"
         [] x.sig = SIGNATURE_INT -> "INT"
         [] x.sig = SIGNATURE_OBJ -> "OBJ"
         [] OTHER -> "NIL"

\* encodeDouble: the 64 bits of the double, unchanged
encodeDouble(d) == Bits(d.sign * 32768 + d.exp * 16 + d.m, d.p2, d.p1, d.p0)
\* encodeInt: MASK_SIGNATURE_INT | (uint32_t) x
encodeInt(x) == Bits(SIGNATURE_INT, 0, (x \div Word) % Word, x % Word)
\* encodeBool
encodeBool(b) == Bits(IF b THEN SIGNATURE_TRUE ELSE SIGNATURE_FALSE, 0, 0, 0)
\* encodeObj: MASK_SIGNATURE_OBJ | the pointer, whose words are ptr
encodeObj(ptr) == Bits(Or(SIGNATURE_OBJ, ptr[1]), ptr[2], ptr[3], ptr[4])
\* encodeNil
encodeNil == Bits(SIGNATURE_NIL, 0, 0, 0)

\* decodeDouble: the 64 bits read as a double
decodeDouble(x) ==
  [sign |-> x.sig \div 32768, exp |-> (x.sig \div 16) % 2048, m |-> x.sig % 16,
   p2 |-> x.p2, p1 |-> x.p1, p0 |-> x.p0]
\* decodeInt: x & MASK_PAYLOAD_INT converted to int32_t
decodeInt(x) == (IF x.p1 >= Word \div 2 THEN x.p1 - Word ELSE x.p1) * Word + x.p0
\* decodeBool: x & MASK_TYPE_TRUE
decodeBool(x) == (x.sig \div 2) % 2 = 1
\* decodeObj: x & MASK_PAYLOAD_OBJ
decodeObjBits(x) == <<0, x.p2, x.p1, x.p0>>

\* the doubles: every sign and exponent class, mantissas at both ends; with
\* all exponent bits set, a zero mantissa is an infinity and another a NaN
Doubles ==
  [sign : {0, 1}, exp : Exps, m : Tops, p2 : {0, Word - 1}, p1 : {0}, p0 : Words]
isNaN(d) == d.exp = ExpAllOnes /\ (d.m # 0 \/ d.p2 # 0 \/ d.p1 # 0 \/ d.p0 # 0)

\* the pointers: at most 48 bits
Pointers == {<<0, p2, p1, p0>> : p2 \in Words, p1 \in Words, p0 \in Words}

\* the ints: both ends of the 32-bit range and values around zero
Int32s == {INT32_MIN, INT32_MIN + 1, -Word, -1, 0, 1, Word, INT32_MAX - 1, INT32_MAX}

NbInput(kind, val) == [pc |-> "input", in |-> [kind |-> kind, val |-> val]]

InitValue ==
  /\ RuntimeInit
  /\ uv = UvIdle /\ sw = SwIdle /\ ex = ExIdle /\ cc = CcIdle /\ rc = RcIdle /\ fr = FrIdle /\ cp = CpIdle /\ pj = PjIdle /\ fe = FeIdle /\ co = CoIdle
  /\ \/ \E n \in Int32s : nb = NbInput("INT", n)
     \/ \E b \in BOOLEAN : nb = NbInput("BOOL", b)
     \/ nb = NbInput("NIL", 0)
     \/ \E p \in Pointers : nb = NbInput("OBJ", p)
     \/ \E d \in Doubles : nb = NbInput("DOUBLE", d)

NbDouble ==
  /\ nb.pc = "input" /\ nb.in.kind = "DOUBLE"
  /\ LET x == encodeDouble(nb.in.val)
     IN nb' = [pc |-> "done", in |-> nb.in, bits |-> x, type |-> getType(x),
               out |-> decodeDouble(x)]
  /\ UNCHANGED <<tvars, uv, sw, ex, cc, rc, fr, cp, pj, fe, co>>

NbInt ==
  /\ nb.pc = "input" /\ nb.in.kind = "INT"
  /\ LET x == encodeInt(nb.in.val)
     IN nb' = [pc |-> "done", in |-> nb.in, bits |-> x, type |-> getType(x),
               out |-> decodeInt(x)]
  /\ UNCHANGED <<tvars, uv, sw, ex, cc, rc, fr, cp, pj, fe, co>>

NbBool ==
  /\ nb.pc = "input" /\ nb.in.kind = "BOOL"
  /\ LET x == encodeBool(nb.in.val)
     IN nb' = [pc |-> "done", in |-> nb.in, bits |-> x, type |-> getType(x),
               out |-> decodeBool(x)]
  /\ UNCHANGED <<tvars, uv, sw, ex, cc, rc, fr, cp, pj, fe, co>>

NbObj ==
  /\ nb.pc = "input" /\ nb.in.kind = "OBJ"
  /\ LET x == encodeObj(nb.in.val)
     IN nb' = [pc |-> "done", in |-> nb.in, bits |-> x, type |-> getType(x),
               out |-> decodeObjBits(x)]
  /\ UNCHANGED <<tvars, uv, sw, ex, cc, rc, fr, cp, pj, fe, co>>

NbNil ==
  /\ nb.pc = "input" /\ nb.in.kind = "NIL"
  /\ nb' = [pc |-> "done", in |-> nb.in, bits |-> encodeNil,
            type |-> getType(encodeNil), out |-> 0]
  /\ UNCHANGED <<tvars, uv, sw, ex, cc, rc, fr, cp, pj, fe, co>>

NextValue == NbDouble \/ NbInt \/ NbBool \/ NbObj \/ NbNil

SpecValue == InitValue /\ [][NextValue]_vars

\* C16: the Value encoding round-trips.  An int, a bool, nil and an object
\* pointer of at most 48 bits are classified by getType as their own kind
\* and decode to what was encoded; every double that is no NaN, both
\* infinities and negative zero included, is classified DOUBLE and decodes
\* to the same bits; so no encoder's output is taken for another kind.
C16_RoundTrip ==
  (nb.pc = "done" /\ ~(nb.in.kind = "DOUBLE" /\ isNaN(nb.in.val))) =>
    /\ nb.type = nb.in.kind
    /\ nb.in.kind # "NIL" => nb.out = nb.in.val

(***************************************************************************)
(* The compiler's globals, imports and classes (SpecCompile).              *)
(*                                                                         *)
(* The Compiler constructor walks the modules in order: it registers the   *)
(* top-level declarations of a module in globals, compiles the module's    *)
(* statements, and moves to the next module.  A declaration is a name, a   *)
(* kind, whether it is exported, the identifiers it refers to (those of a  *)
(* function's body, the superclass of a class) and its methods.  Indexes   *)
(* into globals are counted from 0 as                                      *)
(* in the source.  The first diagnostic ends the compilation here: the     *)
(* program is rejected.  The compiled classes are then used by INVOKE and  *)
(* GET_PROPERTY on an instance.                                            *)
(***************************************************************************)
\* declarations of the module that nothing imports, compiled first
PadDecls == 1

Ref(module, name) == [module |-> module, name |-> name]
Decl(name, kind, exported, refs, methods) ==
  [name |-> name, kind |-> kind, exported |-> exported, refs |-> refs,
   methods |-> methods]
FuncDecl(name, exported, refs) == Decl(name, "func", exported, refs, {})
Dependency(module, alias) == [module |-> module, alias |-> alias]
Module(decls, deps) == [decls |-> decls, deps |-> deps]

\* runtime::createNativeNameTable: the names of the native functions
nativeFuncNames == {"print"}

\* the programs: a module that is not imported; module M with a and b, each
\* exported or not, b referring to a; and the importer of M, under alias m or
\* without alias, with class S, class C : S, function f referring to one
\* identifier (bare or alias::name), and variable g declared after f
CcRefs == {Ref(module, name) : module \in {"", "m"},
                               name \in {"a", "b", "g", "S", "zz", "print"}}
CcPrograms ==
  {<< Module([i \in 1..PadDecls |-> FuncDecl(<<"z", "y", "x", "w">>[i], TRUE, <<>>)], <<>>),
      Module(<<FuncDecl("a", e1, <<>>), FuncDecl("b", e2, <<Ref("", "a")>>)>>, <<>>),
      Module(<<Decl("S", "class", FALSE, <<>>, {"s"}),
               Decl("C", "class", FALSE, <<Ref("", "S")>>, own),
               FuncDecl("f", FALSE, <<ref>>),
               Decl("g", "var", FALSE, <<>>, {})>>,
             <<Dependency(2, alias)>>) >> :
     e1 \in BOOLEAN, e2 \in BOOLEAN, own \in {{}, {"s"}, {"c"}},
     ref \in CcRefs, alias \in {"", "m"}}

\* the Values stored in globals
CcNil == [k |-> "nil", name |-> "", methods |-> <<>>]
CcClosure(name) == [k |-> "closure", name |-> name, methods |-> <<>>]
CcClass(name, methods) == [k |-> "class", name |-> name, methods |-> methods]

InitCompile ==
  /\ RuntimeInit
  /\ uv = UvIdle /\ sw = SwIdle /\ ex = ExIdle /\ nb = NbIdle /\ rc = RcIdle /\ fr = FrIdle /\ cp = CpIdle /\ pj = PjIdle /\ fe = FeIdle /\ co = CoIdle
  /\ \E units \in CcPrograms :
       cc = [pc |-> "register", units |-> units, curUnitIndex |-> 0,
             curGlobalIndex |-> 0, stmt |-> 1, globals |-> <<>>,
             definedGlobals |-> <<>>, code |-> <<>>, diag |-> "", bad |-> 0,
             klass |-> -1, name |-> "", found |-> ""]

curUnit == cc.units[cc.curUnitIndex + 1]
Min(S) == CHOOSE x \in S : \A y \in S : x <= y

\* the number of top-level declarations of the first n modules
RECURSIVE DeclsBefore(_)
DeclsBefore(n) == IF n = 0 THEN 0 ELSE DeclsBefore(n - 1) + Len(cc.units[n].decls)

\* the first index in from..(to - 1) of globals with this name, or -1
GlobalNamed(name, from, to) ==
  LET hits == {i \in from..(to - 1) : cc.globals[i + 1].name = name}
  IN IF hits = {} THEN -1 ELSE Min(hits)

\* the constructor's loop over curUnit->topDeclarations
CcRegister ==
  /\ cc.pc = "register"
  /\ cc' = [cc EXCEPT
       !.pc = "stmt", !.stmt = 1,
       !.globals = cc.globals \o
          [i \in 1..Len(curUnit.decls) |-> [name |-> curUnit.decls[i].name, val |-> CcNil]],
       !.definedGlobals = cc.definedGlobals \o [i \in 1..Len(curUnit.decls) |-> FALSE]]
  /\ UNCHANGED <<tvars, uv, sw, ex, nb, rc, fr, cp, pj, fe, co>>

\* Compiler::parseVar at scope depth 0
parseVar(name) == GlobalNamed(name, cc.curGlobalIndex, Len(cc.globals))

\* Compiler::defineVar at scope depth 0
defineVar(index) == [cc.definedGlobals EXCEPT ![index + 1] = TRUE]

\* Compiler::checkSymbol
checkSymbol(symbol) ==
  LET names(d) == {decl.name : decl \in Range(cc.units[curUnit.deps[d].module].decls)}
      deps == {d \in DOMAIN curUnit.deps :
                 curUnit.deps[d].alias = "" /\ symbol \in names(d)}
  IN IF deps = {} THEN -1
     ELSE LET module == curUnit.deps[Min(deps)].module
              globalIndex == DeclsBefore(module - 1)
          IN GlobalNamed(symbol, globalIndex, globalIndex + Len(cc.units[module].decls))

\* Compiler::resolveGlobal(symbol, false) with definedGlobals as given
resolveGlobal(symbol, defined) ==
  LET here == {p \in DOMAIN curUnit.decls : curUnit.decls[p].name = symbol}
      index == cc.curGlobalIndex + Min(here) - 1
  IN IF here = {} THEN checkSymbol(symbol)
     ELSE IF ~defined[index + 1] THEN -2
     ELSE index

\* the declarations in unit->exports, in order
exports(module) == SelectSeq(cc.units[module].decls, LAMBDA decl : decl.exported)

\* Compiler::resolveModuleVariable: -1 for an alias no import has, -2 for a
\* name the module does not export
resolveModuleVariable(moduleAlias, variable) ==
  LET deps == {d \in DOMAIN curUnit.deps : curUnit.deps[d].alias = moduleAlias}
      unit == curUnit.deps[Min(deps)].module
      hits == {p \in DOMAIN exports(unit) : exports(unit)[p].name = variable}
  IN IF deps = {} THEN -1
     ELSE IF hits = {} THEN -2
     ELSE DeclsBefore(unit - 1) + Min(hits) - 1

\* what compiling an identifier gives: an instruction or a diagnostic; at is
\* the place of the identifier (module, statement, position in the statement)
Emitted(op, arg) == [op |-> op, arg |-> arg, diag |-> "", at |-> <<>>]
Diagnostic(msg) == [op |-> "", arg |-> -1, diag |-> msg, at |-> <<>>]
EmitGetGlobal(arg) ==
  Emitted(IF arg > SHORT_CONSTANT_LIMIT THEN "GET_GLOBAL_LONG" ELSE "GET_GLOBAL", arg)

\* Compiler::namedVar(token, false) for a name that is no local and no upvalue
namedVar(name, defined) ==
  LET arg == resolveGlobal(name, defined)
  IN IF arg # -1 /\ arg # -2 THEN EmitGetGlobal(arg)
     ELSE IF name \in nativeFuncNames THEN Emitted("GET_NATIVE", 0)
     ELSE IF arg = -1 THEN Diagnostic("doesn't match any declared variable name")
     ELSE Diagnostic("before it's initialized")

\* Compiler::visitModuleAccessExpr.  resolveModuleVariable keeps a pointer to
\* the loop's copy of the Dependency and reads it after the loop: the read
\* finds the copy intact, or the compiler crashes.
visitModuleAccessExpr(ref, intact) ==
  LET arg == resolveModuleVariable(ref.module, ref.name)
  IN IF arg = -1 THEN Diagnostic("Module alias doesn't exist")
     ELSE IF ~intact THEN Diagnostic("crash")
     ELSE IF arg = -2 THEN Diagnostic("doesn't export this symbol")
     ELSE EmitGetGlobal(arg)

\* the body of a declaration compiled: one result per identifier
CompileRefs(refs, defined, intact) ==
  [i \in DOMAIN refs |->
     IF refs[i].module = "" THEN namedVar(refs[i].name, defined)
     ELSE visitModuleAccessExpr(refs[i], intact)]

\* the state after a statement whose expressions gave results: the first
\* diagnostic ends the compilation, otherwise next is the state reached
AfterStmt(results, next) ==
  LET bad == {i \in DOMAIN results : results[i].diag # ""}
  IN IF bad # {}
     THEN [cc EXCEPT !.pc = "failed", !.diag = results[Min(bad)].diag, !.bad = Min(bad)]
     ELSE [next EXCEPT
             !.stmt = cc.stmt + 1,
             !.code = cc.code \o [i \in DOMAIN results |->
                        [results[i] EXCEPT !.at = <<cc.curUnitIndex, cc.stmt, i>>]]]

CcStmt(kind) ==
  /\ cc.pc = "stmt" /\ cc.stmt <= Len(curUnit.decls)
  /\ curUnit.decls[cc.stmt].kind = kind
curDecl == curUnit.decls[cc.stmt]

\* Compiler::visitFuncDecl: defined before its body is compiled
CcFuncDecl ==
  /\ CcStmt("func")
  /\ LET index == parseVar(curDecl.name)
         defined == defineVar(index)
     IN \E intact \in BOOLEAN :
          cc' = AfterStmt(CompileRefs(curDecl.refs, defined, intact),
                  [cc EXCEPT !.definedGlobals = defined,
                             !.globals[index + 1].val = CcClosure(curDecl.name)])
  /\ UNCHANGED <<tvars, uv, sw, ex, nb, rc, fr, cp, pj, fe, co>>

\* Compiler::visitVarDecl: defined after its initializer is compiled
CcVarDecl ==
  /\ CcStmt("var")
  /\ LET index == parseVar(curDecl.name)
     IN \E intact \in BOOLEAN :
          cc' = AfterStmt(CompileRefs(curDecl.refs, cc.definedGlobals, intact),
                  [cc EXCEPT !.definedGlobals = defineVar(index)])
  /\ UNCHANGED <<tvars, uv, sw, ex, nb, rc, fr, cp, pj, fe, co>>

\* the methods of a class declaration: a closure for each, named after the
\* class that declares it
OwnMethods(decl) == [n \in decl.methods |-> decl.name]

\* Compiler::visitClassDecl: the superclass is resolved and remembered for
\* 'super'; the new class gets the methods the declaration lists
CcClassDecl ==
  /\ CcStmt("class")
  /\ LET index == parseVar(curDecl.name)
         arg == resolveGlobal(curDecl.refs[1].name, cc.definedGlobals)
         klass == CcClass(curDecl.name, OwnMethods(curDecl))
         compiled == [cc EXCEPT !.definedGlobals = defineVar(index),
                                !.globals[index + 1].val = klass]
     IN IF curDecl.refs = <<>> THEN cc' = AfterStmt(<<>>, compiled)
        ELSE IF arg = -1 THEN cc' = AfterStmt(<<Diagnostic("Variable isn't defined")>>, cc)
        ELSE IF arg = -2
        THEN cc' = AfterStmt(<<Diagnostic("before it's initialized")>>, cc)
        ELSE IF cc.globals[arg + 1].val.k # "class"
        THEN cc' = AfterStmt(<<Diagnostic("Variable isn't a class")>>, cc)
        ELSE cc' = AfterStmt(<<>>, compiled)
  /\ UNCHANGED <<tvars, uv, sw, ex, nb, rc, fr, cp, pj, fe, co>>

\* the end of the constructor's loop body: the next module, or the end
CcEndUnit ==
  /\ cc.pc = "stmt" /\ cc.stmt > Len(curUnit.decls)
  /\ cc' = [cc EXCEPT !.curGlobalIndex = Len(cc.globals),
                      !.curUnitIndex = cc.curUnitIndex + 1,
                      !.pc = IF cc.curUnitIndex + 1 = Len(cc.units)
                             THEN "done" ELSE "register"]
  /\ UNCHANGED <<tvars, uv, sw, ex, nb, rc, fr, cp, pj, fe, co>>

\* the globals that hold a class
ClassSlots == {i \in 0..(Len(cc.globals) - 1) : cc.globals[i + 1].val.k = "class"}
MethodNames == {"s", "c"}

\* Thread::invokeFromClass / Thread::bindMethod on the class in a global:
\* the closure under the name, or "" when the table has none
LookUp(klass, name) ==
  IF name \in DOMAIN cc.globals[klass + 1].val.methods
  THEN cc.globals[klass + 1].val.methods[name] ELSE ""

\* INVOKE name on an instance of the class in global klass: the instance has
\* no field, so invokeFromClass, then findNativeMethod
CcInvoke ==
  /\ cc.pc = "done"
  /\ \E klass \in ClassSlots, name \in MethodNames :
       cc' = [cc EXCEPT !.pc = "invoked", !.klass = klass, !.name = name,
                        !.found = LookUp(klass, name)]
  /\ UNCHANGED <<tvars, uv, sw, ex, nb, rc, fr, cp, pj, fe, co>>

\* GET_PROPERTY name on an instance of the class in global klass: no field,
\* so bindMethod, then bindMethodToPrimitive
CcGetProperty ==
  /\ cc.pc = "done"
  /\ \E klass \in ClassSlots, name \in MethodNames :
       cc' = [cc EXCEPT !.pc = "bound", !.klass = klass, !.name = name,
                        !.found = LookUp(klass, name)]
  /\ UNCHANGED <<tvars, uv, sw, ex, nb, rc, fr, cp, pj, fe, co>>

NextCompile ==
  \/ CcRegister \/ CcFuncDecl \/ CcVarDecl \/ CcClassDecl \/ CcEndUnit
  \/ CcInvoke \/ CcGetProperty

SpecCompile == InitCompile /\ [][NextCompile]_vars

\* the identifier at a place, the declaration it stands in, and the index at
\* which the constructor registered declaration name of a module (from 0)
DeclAt(at) == cc.units[at[1] + 1].decls[at[2]]
RefAt(at) == DeclAt(at).refs[at[3]]
Position(module, name) ==
  Min({p \in DOMAIN cc.units[module + 1].decls : cc.units[module + 1].decls[p].name = name})
Registered(module, name) == DeclsBefore(module) + Position(module, name) - 1
Names(decls) == {decl.name : decl \in Range(decls)}
IsGetGlobal(code) == code.op \in {"GET_GLOBAL", "GET_GLOBAL_LONG"}

\* the place where the compilation failed
FailedAt == <<cc.curUnitIndex, cc.stmt, cc.bad>>

\* class c (a global index) was declared with superclass s
Inherits(c, s) ==
  \E m \in DOMAIN cc.units : \E decl \in Range(cc.units[m].decls) :
    /\ decl.kind = "class" /\ decl.refs # <<>>
    /\ decl.name = cc.globals[c + 1].name
    /\ decl.refs[1].name = cc.globals[s + 1].name
MethodsOf(klass) == cc.globals[klass + 1].val.methods
\* the method names the declaration of class c lists
Declares(c) ==
  UNION {decl.methods : decl \in {d \in UNION {Range(cc.units[m].decls) : m \in DOMAIN cc.units} :
                                    d.kind = "class" /\ d.name = cc.globals[c + 1].name}}

\* C17: inheritance.  After class C : S is compiled, the method table of the
\* class in C's global has an entry for every name of S's table: C's own
\* closure if C declares the name, else S's; hence INVOKE and GET_PROPERTY of
\* a method only S defines find it on an instance of C.
C17_Inherits ==
  (cc.pc \in {"done", "invoked", "bound"}) =>
    /\ \A c \in ClassSlots, s \in ClassSlots :
         Inherits(c, s) =>
           \A n \in DOMAIN MethodsOf(s) :
             /\ n \in DOMAIN MethodsOf(c)
             /\ MethodsOf(c)[n] = (IF n \in Declares(c) THEN cc.globals[c + 1].name
                                    ELSE MethodsOf(s)[n])
    /\ (/\ cc.pc \in {"invoked", "bound"}
        /\ \E s \in ClassSlots : Inherits(cc.klass, s) /\ cc.name \in DOMAIN MethodsOf(s))
         => cc.found # ""

\* the identifier at a place stands in a function body, is bare, and names a
\* declaration that comes later in the same module
Forward(at) ==
  /\ DeclAt(at).kind = "func" /\ RefAt(at).module = ""
  /\ \E p \in DOMAIN cc.units[at[1] + 1].decls :
       p > at[2] /\ cc.units[at[1] + 1].decls[p].name = RefAt(at).name

\* C18: forward reference.  In the body of a top-level function an identifier
\* naming a declaration that comes later in the same module compiles to
\* GET_GLOBAL / GET_GLOBAL_LONG with that declaration's global index, and no
\* diagnostic is raised for it.
C18_ForwardReference ==
  /\ \A k \in DOMAIN cc.code :
       Forward(cc.code[k].at) =>
         /\ IsGetGlobal(cc.code[k])
         /\ cc.code[k].arg = Registered(cc.code[k].at[1], RefAt(cc.code[k].at).name)
  /\ cc.pc = "failed" => ~Forward(FailedAt)

\* module m (from 1) is imported at this place's module without an alias and
\* exports name
ExportedUnaliased(at, m, name) ==
  /\ \E dep \in Range(cc.units[at[1] + 1].deps) : dep.module = m /\ dep.alias = ""
  /\ \E decl \in Range(exports(m)) : decl.name = name

\* C19: import visibility.  A bare identifier that is no declaration of its
\* own module resolves to a global of an imported module only if that module
\* is imported without alias and exports the name: declarations that are not
\* exported, and all those of a module imported under an alias, are never
\* reached by a bare identifier.
C19_ImportVisibility ==
  \A k \in DOMAIN cc.code :
    LET at == cc.code[k].at
        name == RefAt(at).name
    IN (/\ RefAt(at).module = "" /\ DeclAt(at).kind # "class"
        /\ name \notin Names(cc.units[at[1] + 1].decls)
        /\ IsGetGlobal(cc.code[k]))
         => \E m \in DOMAIN cc.units :
              /\ ExportedUnaliased(at, m, name)
              /\ cc.code[k].arg = Registered(m - 1, name)

\* the identifier at a place is alias::name for an import of module m (from
\* 1) under that alias, and m exports name
ModuleAccess(at, m) ==
  /\ RefAt(at).module # "" /\ DeclAt(at).kind # "class"
  /\ \E dep \in Range(cc.units[at[1] + 1].deps) :
       dep.module = m /\ dep.alias = RefAt(at).module
  /\ \E decl \in Range(exports(m)) : decl.name = RefAt(at).name

\* C20: module access index.  alias::name, for an import of M under alias
\* and a name M exports, resolves to the index at which M's declaration was
\* registered: the number of declarations of the modules before M plus the
\* position of name among M's declarations; code inside M and importers
\* without alias use the same index, whatever M exports.
C20_ModuleAccessIndex ==
  \A k \in DOMAIN cc.code : \A m \in DOMAIN cc.units :
    LET at == cc.code[k].at
    IN /\ ModuleAccess(at, m) =>
            (IsGetGlobal(cc.code[k])
               /\ cc.code[k].arg = Registered(m - 1, RefAt(at).name))
       /\ (/\ RefAt(at).module = "" /\ IsGetGlobal(cc.code[k])
           /\ RefAt(at).name \in Names(cc.units[m].decls)
           /\ (at[1] + 1 = m \/ ExportedUnaliased(at, m, RefAt(at).name)))
            => cc.code[k].arg = Registered(m - 1, RefAt(at).name)

(***************************************************************************)
(* The compiler's scopes across diagnostics (SpecRecover).                 *)
(*                                                                         *)
(* The constructor compiles the top-level statements one after another,    *)
(* each inside try { } catch (CompilerException) { }.  A statement here is *)
(* one of seven shapes; the nested ones declare a local x in their body,   *)
(* the loop and the switch also hold a break, and a failing statement      *)
(* then names an undeclared variable, for which Compiler::error throws.    *)
(* The compiler state is the chain of CurrentChunkInfo (the last is        *)
(* current, the one before it its enclosing) and currentClass.             *)
(***************************************************************************)
\* top-level statements of a program
MaxStmts == 2

RcKinds == {"expr", "block", "while", "switch", "func", "literal", "class"}
RcNames == <<"f1", "f2", "f3", "f4">>

\* CurrentChunkInfo::CurrentChunkInfo: the first local is claimed
RcLocal(name, depth) == [name |-> name, depth |-> depth]
CurrentChunkInfo(type) ==
  [type |-> type, scopeDepth |-> 0,
   locals |-> <<RcLocal(IF type = "method" THEN "this" ELSE "", 0)>>,
   scopeWithLoop |-> <<>>, scopeWithSwitch |-> <<>>, scopeJumps |-> <<>>]

\* a compiler state st: chunks, currentClass ("null", "live": the address of
\* visitClassDecl's local ClassChunkInfo, "dangling": that address after the
\* local is gone), and whether an exception is in flight; every step below
\* is skipped while one is
Cur(st) == st.chunks[Len(st.chunks)]
Upd(st, chunk) == [st EXCEPT !.chunks[Len(st.chunks)] = chunk]

beginScope(st) ==
  IF st.thrown THEN st ELSE Upd(st, [Cur(st) EXCEPT !.scopeDepth = @ + 1])

\* Compiler::endScope: the locals deeper than the lowered depth are dropped
endScope(st) ==
  IF st.thrown THEN st
  ELSE Upd(st, [Cur(st) EXCEPT
         !.scopeDepth = @ - 1,
         !.locals = SelectSeq(@, LAMBDA l : l.depth <= Cur(st).scopeDepth - 1)])

\* Compiler::declareVar / addLocal (through parseVar)
declareVar(st, name) ==
  LET c == Cur(st)
      \* the locals of the current scope: those above the topmost local that
      \* is initialized and shallower
      stop == {i \in DOMAIN c.locals :
                 c.locals[i].depth # -1 /\ c.locals[i].depth < c.scopeDepth}
      from == IF stop = {} THEN 1 ELSE (CHOOSE i \in stop : \A j \in stop : j <= i) + 1
  IN IF st.thrown \/ c.scopeDepth = 0 THEN st
     ELSE IF \E i \in from..Len(c.locals) : c.locals[i].name = name
     THEN [st EXCEPT !.thrown = TRUE]
     ELSE Upd(st, [c EXCEPT !.locals = Append(@, RcLocal(name, -1))])

\* Compiler::markInit (through defineVar)
markInit(st) ==
  IF st.thrown \/ Cur(st).scopeDepth = 0 THEN st
  ELSE Upd(st, [Cur(st) EXCEPT !.locals[Len(Cur(st).locals)].depth = Cur(st).scopeDepth])

\* current = new CurrentChunkInfo(current, type)
NewChunk(st, type) ==
  IF st.thrown THEN st ELSE [st EXCEPT !.chunks = Append(@, CurrentChunkInfo(type))]

\* Compiler::endFuncDecl: current = current->enclosing
endFuncDecl(st) ==
  IF st.thrown THEN st ELSE [st EXCEPT !.chunks = SubSeq(@, 1, Len(@) - 1)]

\* Compiler::visitBreakStmt: the jump is left in scopeJumps
visitBreakStmt(st) ==
  IF st.thrown THEN st
  ELSE Upd(st, [Cur(st) EXCEPT
         !.scopeJumps = Append(@, [type |-> "BREAK", depth |-> Cur(st).scopeDepth])])

\* Compiler::patchScopeJumps(type) from jump i down: a jump of that type in a
\* deeper scope is patched and erased; at a shallower one the loop ends
RECURSIVE PatchFrom(_, _, _, _)
PatchFrom(jumps, i, depth, type) ==
  IF i = 0 THEN jumps
  ELSE IF jumps[i].depth > depth /\ jumps[i].type = type
  THEN PatchFrom(SubSeq(jumps, 1, i - 1) \o SubSeq(jumps, i + 1, Len(jumps)),
                 i - 1, depth, type)
  ELSE IF jumps[i].depth < depth THEN jumps
  ELSE PatchFrom(jumps, i - 1, depth, type)
patchScopeJumps(st, type) ==
  IF st.thrown THEN st
  ELSE Upd(st, [Cur(st) EXCEPT
         !.scopeJumps = PatchFrom(@, Len(@), Cur(st).scopeDepth, type)])

\* scopeWithLoop / scopeWithSwitch push_back(scopeDepth) and pop_back
PushScope(st, field) ==
  IF st.thrown THEN st
  ELSE Upd(st, [Cur(st) EXCEPT ![field] = Append(@, Cur(st).scopeDepth)])
PopScope(st, field) ==
  IF st.thrown THEN st ELSE Upd(st, [Cur(st) EXCEPT ![field] = SubSeq(@, 1, Len(@) - 1)])

\* Compiler::error: throw CompilerException
Throws(st, fails) == IF fails THEN [st EXCEPT !.thrown = TRUE] ELSE st

\* the body of a nested statement: let x; then break; in a loop or switch;
\* then, in a failing statement, the undeclared name
RcBody(st, fails, withBreak) ==
  LET declared == markInit(declareVar(st, "x"))
  IN Throws(IF withBreak THEN visitBreakStmt(declared) ELSE declared, fails)

visitBlockStmt(st, fails) == endScope(RcBody(beginScope(st), fails, FALSE))

visitWhileStmt(st, fails) ==
  LET body == endScope(RcBody(beginScope(PushScope(st, "scopeWithLoop")), fails, TRUE))
  IN patchScopeJumps(patchScopeJumps(PopScope(body, "scopeWithLoop"), "CONTINUE"), "BREAK")

\* Compiler::visitSwitchStmt with one case, as far as the scopes go
SwitchScopes(st, fails) ==
  LET case == endScope(RcBody(beginScope(PushScope(st, "scopeWithSwitch")), fails, TRUE))
  IN patchScopeJumps(PopScope(patchScopeJumps(case, "ADVANCE"), "scopeWithSwitch"), "BREAK")

\* the function chunk of visitFuncDecl, visitFuncLiteral and method
FuncChunk(st, type, fails) ==
  endFuncDecl(RcBody(beginScope(NewChunk(st, type)), fails, FALSE))

visitFuncDecl(st, name, fails) ==
  FuncChunk(markInit(declareVar(st, name)), "func", fails)

\* Compiler::visitClassDecl with one method
visitClassDecl(st, name, fails) ==
  LET entered == [declareVar(st, name) EXCEPT
                    !.currentClass = IF declareVar(st, name).thrown THEN @ ELSE "live"]
      compiled == FuncChunk(markInit(entered), "method", fails)
  IN IF compiled.thrown
     THEN [compiled EXCEPT !.currentClass = IF @ = "live" THEN "dangling" ELSE @]
     ELSE [compiled EXCEPT !.currentClass = "null"]

InitRecover ==
  /\ RuntimeInit
  /\ uv = UvIdle /\ sw = SwIdle /\ ex = ExIdle /\ cc = CcIdle /\ nb = NbIdle
  /\ fr = FrIdle /\ cp = CpIdle /\ pj = PjIdle /\ fe = FeIdle /\ co = CoIdle
  /\ \E stmts \in [1..MaxStmts -> [kind : RcKinds, fails : BOOLEAN]] :
       rc = [pc |-> "stmt", stmts |-> stmts, i |-> 1,
             chunks |-> <<CurrentChunkInfo("script")>>, currentClass |-> "null",
             failed |-> FALSE]

\* one turn of the constructor's loop over unit->stmts: the statement of
\* that kind is compiled from the state the compiler is in
RcAt(kind) == rc.pc = "stmt" /\ rc.stmts[rc.i].kind = kind
RcState == [chunks |-> rc.chunks, currentClass |-> rc.currentClass, thrown |-> FALSE]
RcFails == rc.stmts[rc.i].fails

\* try { accept } catch (CompilerException) { }: the state the statement
\* left is kept as it is, and the loop goes on
RcCaught(st) ==
  /\ rc' = [rc EXCEPT !.chunks = st.chunks, !.currentClass = st.currentClass,
                      !.failed = st.thrown, !.i = rc.i + 1,
                      !.pc = IF rc.i = Len(rc.stmts) THEN "done" ELSE "stmt"]
  /\ UNCHANGED <<tvars, uv, sw, ex, cc, nb, fr, cp, pj, fe, co>>

RcExprStmt ==
  /\ RcAt("expr")
  /\ RcCaught(Throws(RcState, RcFails))
RcBlockStmt ==
  /\ RcAt("block")
  /\ RcCaught(visitBlockStmt(RcState, RcFails))
RcWhileStmt ==
  /\ RcAt("while")
  /\ RcCaught(visitWhileStmt(RcState, RcFails))
RcSwitchStmt ==
  /\ RcAt("switch")
  /\ RcCaught(SwitchScopes(RcState, RcFails))
RcFuncDecl ==
  /\ RcAt("func")
  /\ RcCaught(visitFuncDecl(RcState, RcNames[rc.i], RcFails))
RcFuncLiteral ==
  /\ RcAt("literal")
  /\ RcCaught(FuncChunk(RcState, "func", RcFails))
RcClassDecl ==
  /\ RcAt("class")
  /\ RcCaught(visitClassDecl(RcState, RcNames[rc.i], RcFails))

NextRecover ==
  \/ RcExprStmt \/ RcBlockStmt \/ RcWhileStmt \/ RcSwitchStmt
  \/ RcFuncDecl \/ RcFuncLiteral \/ RcClassDecl

SpecRecover == InitRecover /\ [][NextRecover]_vars

\* C21: compile-error recovery.  After a statement that raised a diagnostic
\* the next top-level statement finds the compiler state the failing
\* statement found: the same chunk (the script's), scopeDepth and locals,
\* the same scopeWithLoop, scopeWithSwitch and scopeJumps, and currentClass
\* null as before.
C21_Recovery ==
  [][rc'.failed => (rc'.chunks = rc.chunks /\ rc'.currentClass = rc.currentClass)]_vars

(***************************************************************************)
(* One thread's call frames and operand stack (SpecFrames).                *)
(*                                                                         *)
(* The main thread runs a script of one statement; the global function     *)
(* f has a body of a few statements, g takes one argument, i is an instance *)
(* of class B : A; both classes declare m() and n(x), and B's call the     *)
(* superclass's through super.  The stack is the array Value               *)
(* stack[STACK_MAX] with stackTop as the count of slots below it, the      *)
(* frames are CallFrame frames[FRAMES_MAX]; ip, slotStart and              *)
(* constantOffset are the registers executeBytecode keeps for the frame on *)
(* top.  A read or write below stack[0] is undefined: the machine stops    *)
(* there, in "wild".                                                       *)
(***************************************************************************)
\* slots of Thread::stack
StackMax == 6
\* statements in the body of f
MaxBody == 2

FrValue(kind, of) == [k |-> kind, r |-> of]
FrNilVal == FrValue("nil", "")
FrIntVal == FrValue("int", "")
FrInstance == FrValue("inst", "")
FrClosureVal(name) == FrValue("closure", name)
\* an ObjBoundMethod of method m; r is the kind of the receiver
FrBound(receiver) == FrValue("bound", receiver.k)

Instr(op, arg) == [op |-> op, arg |-> arg, name |-> ""]
\* an instruction with an argument count and a method name
InstrNamed(op, argCount, name) == [op |-> op, arg |-> argCount, name |-> name]
Times(n, instr) == [j \in 1..n |-> instr]

\* what the compiler emits for a statement
FrStmtKinds == {"prop", "callf", "callg", "badcall", "deep", "local", "invm", "invn"}
FrStmtCode(kind) ==
  CASE kind = "prop" ->     \* i.m;
         <<Instr("GET_GLOBAL", "i"), Instr("GET_PROPERTY", "m"), Instr("POP", "")>>
    [] kind = "callf" ->    \* f();
         <<Instr("GET_GLOBAL", "f"), Instr("CALL", "0"), Instr("POP", "")>>
    [] kind = "callg" ->    \* g(0);
         <<Instr("GET_GLOBAL", "g"), Instr("LOAD_INT", ""), Instr("CALL", "1"),
           Instr("POP", "")>>
    [] kind = "badcall" ->  \* g();
         <<Instr("GET_GLOBAL", "g"), Instr("CALL", "0"), Instr("POP", "")>>
    [] kind = "deep" ->     \* an expression of StackMax operands
         Times(StackMax, Instr("LOAD_INT", "")) \o Times(StackMax, Instr("POP", ""))
    [] kind = "local" ->    \* let x = 0; (a local stays on the stack)
         <<Instr("LOAD_INT", "")>>
    [] kind = "invm" ->     \* i.m();
         <<Instr("GET_GLOBAL", "i"), InstrNamed("INVOKE", "0", "m"), Instr("POP", "")>>
    [] kind = "invn" ->     \* i.n(0);
         <<Instr("GET_GLOBAL", "i"), Instr("LOAD_INT", ""), InstrNamed("INVOKE", "1", "n"),
           Instr("POP", "")>>

\* return 0;  or  return i.m;
FrRetKinds == {"int", "prop"}
FrRetCode(kind) ==
  IF kind = "int" THEN <<Instr("LOAD_INT", ""), Instr("RETURN", "")>>
  ELSE <<Instr("GET_GLOBAL", "i"), Instr("GET_PROPERTY", "m"), Instr("RETURN", "")>>

RECURSIVE FrBodyCode(_)
FrBodyCode(kinds) ==
  IF kinds = <<>> THEN <<>> ELSE FrStmtCode(Head(kinds)) \o FrBodyCode(Tail(kinds))

\* the script is one statement, the body of f up to MaxBody
FrBodies == [1..1 -> FrStmtKinds \ {"local"}]
FrFuncBodies == UNION {[1..n -> FrStmtKinds] : n \in 0..MaxBody}

\* Compiler::invoke, the super branch, in B's method name: this, the
\* arguments, the superclass as a constant, SUPER_INVOKE; then RETURN
FrSuperCode(name) ==
  <<Instr("GET_LOCAL", "0")>>
    \o (IF name = "n" THEN <<Instr("LOAD_INT", "")>> ELSE <<>>)
    \o <<Instr("CONSTANT", "A"),
         InstrNamed("SUPER_INVOKE", IF name = "n" THEN "1" ELSE "0", name),
         Instr("RETURN", "")>>

FrFuncs == {"script", "f", "g", "A.m", "A.n", "B.m", "B.n"}
FrArity(name) == IF name \in {"g", "A.n", "B.n"} THEN 1 ELSE 0
\* klass->methods of the two classes
FrMethods == [A |-> [m |-> "A.m", n |-> "A.n"], B |-> [m |-> "B.m", n |-> "B.n"]]
FrArgc(instr) == IF instr.arg = "1" THEN 1 ELSE 0
\* func->constantsOffset and func->bytecodeOffset of the four functions; ip
\* counts from the function's bytecodeOffset
FrConstantsOffset(name) ==
  CASE name = "script" -> 0 [] name = "f" -> 1 [] name = "g" -> 2
    [] name = "A.m" -> 3 [] name = "A.n" -> 4 [] name = "B.m" -> 5 [] name = "B.n" -> 6
BytecodeOffset == 1

\* a CallFrame; saved is the stack below the callee when the frame was
\* pushed, which the code does not keep: it is there to state what a
\* return must have left alone
CallFrame(closure, ip, slots, saved) ==
  [closure |-> closure, ip |-> ip, slots |-> slots, saved |-> saved]

InitFrames ==
  /\ RuntimeInit
  /\ uv = UvIdle /\ sw = SwIdle /\ ex = ExIdle /\ cc = CcIdle /\ nb = NbIdle
  /\ rc = RcIdle /\ cp = CpIdle /\ pj = PjIdle /\ fe = FeIdle /\ co = CoIdle
  /\ \E script \in FrBodies, body \in FrFuncBodies, ret \in FrRetKinds :
       fr = [pc |-> "run",
             code |-> [name \in FrFuncs |->
                         CASE name = "script" ->
                                FrBodyCode(script) \o <<Instr("NIL", ""), Instr("RETURN", "")>>
                           [] name = "f" -> FrBodyCode(body) \o FrRetCode(ret)
                           [] name \in {"g", "A.m", "A.n"} -> FrRetCode("int")
                           [] name = "B.m" -> FrSuperCode("m")
                           [] name = "B.n" -> FrSuperCode("n")],
             stack |-> [j \in 1..StackMax |-> FrNilVal], top |-> 1,
             frames |-> <<CallFrame("script", BytecodeOffset, 1, <<>>)>>,
             ip |-> BytecodeOffset, constantOffset |-> FrConstantsOffset("script"),
             err |-> 0]

FrFrame == fr.frames[Len(fr.frames)]
\* the instruction at ip, and ip after READ_BYTE of opcode and operands
FrAt(op) == fr.pc = "run" /\ fr.code[FrFrame.closure][fr.ip].op = op
FrOperand == fr.code[FrFrame.closure][fr.ip]
FrFetched(st) == [st EXCEPT !.ip = fr.ip + 1]

\* runtimeError(err, code)
FrThrow(st, code) == [st EXCEPT !.pc = "error", !.err = code]
\* an access below stack[0]
FrWild(st) == [st EXCEPT !.pc = "wild"]

\* Thread::push
FrPush(st, val) ==
  IF st.pc # "run" THEN st
  ELSE IF st.top >= StackMax THEN FrThrow(st, 1)
  ELSE [st EXCEPT !.stack[st.top + 1] = val, !.top = st.top + 1]

\* Thread::pop: stackTop--, unchecked
FrPopped(st) ==
  IF st.pc # "run" THEN st
  ELSE IF st.top = 0 THEN FrWild([st EXCEPT !.top = -1])
  ELSE [st EXCEPT !.top = st.top - 1]

\* LOAD_FRAME
LoadFrame(st) ==
  IF st.pc # "run" THEN st
  ELSE [st EXCEPT !.ip = st.frames[Len(st.frames)].ip,
                  !.constantOffset = FrConstantsOffset(st.frames[Len(st.frames)].closure)]

\* Thread::call(closure, argCount)
FrCallClosure(st, closure, argCount) ==
  IF argCount # FrArity(closure) THEN FrThrow(st, 2)
  ELSE IF Len(st.frames) = FramesMax THEN FrThrow(st, 1)
  ELSE [st EXCEPT !.frames = Append(@, CallFrame(closure, BytecodeOffset,
                                                   st.top - argCount,
                                                   [j \in 1..(st.top - argCount - 1) |->
                                                      st.stack[j]]))]

\* Thread::callValue(peek(argCount), argCount)
FrCallValue(st, argCount) ==
  IF st.top - argCount < 1 THEN FrWild(st)
  ELSE LET callee == st.stack[st.top - argCount]
       IN CASE callee.k = "closure" -> FrCallClosure(st, callee.r, argCount)
            [] callee.k = "bound" ->
                 FrCallClosure([st EXCEPT !.stack[st.top - argCount] = FrValue(callee.r, "")],
                               FrMethods.B.m, argCount)
            [] OTHER -> FrThrow(st, 3)

\* Thread::invokeFromClass finding the method in every class's table
invokeFromReceiver(st, klass, name, argCount) ==
  IF st.pc # "run" THEN st ELSE FrCallClosure(st, FrMethods.B[name], argCount)

\* Thread::invokeFromClass(klass, methodName, argCount): both classes have
\* both methods
invokeFromClass(st, klass, name, argCount) ==
  IF st.pc # "run" THEN st ELSE FrCallClosure(st, FrMethods[klass][name], argCount)

\* Thread::invoke(fieldName, argCount): i has no fields and is of class B; no
\* builtin class has m or n
FrInvokeValue(st, name, argCount) ==
  IF st.top - argCount < 1 THEN FrWild(st)
  ELSE IF st.stack[st.top - argCount].k = "inst"
  THEN invokeFromClass(st, "B", name, argCount)
  ELSE FrThrow(st, 4)

\* Thread::bindMethod(klass, name), the method found: the receiver is
\* peek(0), and the bound method goes to *(stackTop - 1)
FrBindMethod(st) ==
  IF st.top < 1 THEN FrWild(st)
  ELSE [st EXCEPT !.stack[st.top] = FrBound(st.stack[st.top])]

FrStep(st) ==
  /\ fr' = st
  /\ UNCHANGED <<tvars, uv, sw, ex, cc, nb, rc, cp, pj, fe, co>>

\* LOAD_INT / NIL: push
FrLoadInt ==
  /\ FrAt("LOAD_INT")
  /\ FrStep(FrPush(FrFetched(fr), FrIntVal))
FrNil ==
  /\ FrAt("NIL")
  /\ FrStep(FrPush(FrFetched(fr), FrNilVal))

\* GET_GLOBAL: push the global (the function f or g, or the instance i)
FrGetGlobal ==
  /\ FrAt("GET_GLOBAL")
  /\ FrStep(FrPush(FrFetched(fr),
                   IF FrOperand.arg = "i" THEN FrInstance ELSE FrClosureVal(FrOperand.arg)))

\* POP: stackTop--
FrPop ==
  /\ FrAt("POP")
  /\ FrStep(FrPopped(FrFetched(fr)))

\* GET_PROPERTY name: inst = pop(); an instance whose class has the method
\* binds it (i has no fields), anything else goes to bindMethodToPrimitive,
\* which finds no builtin m
FrGetProperty ==
  /\ FrAt("GET_PROPERTY")
  /\ LET popped == FrPopped(FrFetched(fr))
     IN IF popped.pc # "run" THEN FrStep(popped)
        ELSE IF fr.stack[fr.top].k = "inst" THEN FrStep(FrBindMethod(popped))
        ELSE FrStep(FrThrow(popped, 4))

\* GET_LOCAL slot: push(slotStart[slot]) (no local is an upvalue cell here)
FrGetLocal ==
  /\ FrAt("GET_LOCAL")
  /\ FrStep(FrPush(FrFetched(fr), fr.stack[FrFrame.slots]))

\* CONSTANT: push(READ_CONSTANT()), here the superclass
FrConstant ==
  /\ FrAt("CONSTANT")
  /\ FrStep(FrPush(FrFetched(fr), FrValue("class", FrOperand.arg)))

\* the frame on top with ip stored after this instruction
FrStored == [fr EXCEPT !.ip = fr.ip + 1, !.frames[Len(fr.frames)].ip = fr.ip + 1]

\* INVOKE argCount name: STORE_FRAME, invoke, LOAD_FRAME
FrInvoke ==
  /\ FrAt("INVOKE")
  /\ FrStep(LoadFrame(FrInvokeValue(FrStored, FrOperand.name, FrArgc(FrOperand))))

\* SUPER_INVOKE argCount name: superclass = asClass(pop()), STORE_FRAME,
\* invokeFromClass, LOAD_FRAME
FrSuperInvoke ==
  /\ FrAt("SUPER_INVOKE")
  /\ FrStep(LoadFrame(invokeFromClass(FrPopped(FrStored), fr.stack[fr.top].r,
                                      FrOperand.name, FrArgc(FrOperand))))

\* CALL argCount: STORE_FRAME, callValue, LOAD_FRAME
FrCall ==
  /\ FrAt("CALL")
  /\ FrStep(LoadFrame(FrCallValue(FrStored, FrArgc(FrOperand))))

\* RETURN: result = pop(), frameCount--; frame 0 leaves executeBytecode, any
\* other does stackTop = slotStart, push(result), LOAD_FRAME
FrReturn ==
  /\ FrAt("RETURN")
  /\ LET popped == FrPopped(FrFetched(fr))
         result == fr.stack[fr.top]
         left == [popped EXCEPT !.frames = SubSeq(@, 1, Len(@) - 1)]
     IN IF popped.pc # "run" THEN FrStep(popped)
        ELSE IF Len(left.frames) = 0 THEN FrStep([left EXCEPT !.pc = "done"])
        ELSE FrStep(LoadFrame(FrPush([left EXCEPT !.top = FrFrame.slots - 1], result)))

NextFrames ==
  \/ FrLoadInt \/ FrNil \/ FrGetGlobal \/ FrGetLocal \/ FrConstant \/ FrPop
  \/ FrGetProperty \/ FrCall \/ FrInvoke \/ FrSuperInvoke \/ FrReturn

SpecFrames == InitFrames /\ [][NextFrames]_vars

\* C25: stack bounds.  At all times frameCount <= FRAMES_MAX and
\* stack <= stackTop <= stack + STACK_MAX, no instruction reads or writes
\* outside either array, and one that would push past the end signals
\* runtime error 1.
C25_StackBounds ==
  fr.pc # "off" =>
    /\ Len(fr.frames) <= FramesMax
    /\ 0 <= fr.top /\ fr.top <= StackMax
    /\ fr.pc # "wild"

\* the step is a CALL that pushes a frame, or a RETURN from a frame above 0
FrCalls == FrAt("CALL") /\ fr'.pc = "run" /\ Len(fr'.frames) = Len(fr.frames) + 1
FrReturns == FrAt("RETURN") /\ Len(fr.frames) > 1

\* C29: call/return discipline.  CALL argc on a closure at stack height H
\* bases the new frame at the callee slot H - argc, leaves the arguments
\* above it and starts at the function's bytecodeOffset; the matching
\* RETURN takes frameCount back, leaves the stack at height H - argc with
\* the returned value in the callee slot and every slot below as it was at
\* the CALL, and resumes the caller after its CALL with its constantsOffset.
C29_CallReturn ==
  [][/\ FrCalls =>
          LET new == fr'.frames[Len(fr'.frames)]
          IN /\ new.slots = fr.top - FrArgc(FrOperand)
             /\ fr.stack[new.slots].k = "closure"
             /\ new.closure = fr.stack[new.slots].r
             /\ \A j \in 1..fr.top : fr'.stack[j] = fr.stack[j]
             /\ fr'.top = fr.top
             /\ fr'.ip = BytecodeOffset
             /\ fr'.constantOffset = FrConstantsOffset(new.closure)
             /\ fr'.frames[Len(fr.frames)].ip = fr.ip + 1
     /\ FrReturns =>
          /\ fr'.pc = "run"
          /\ Len(fr'.frames) = Len(fr.frames) - 1
          /\ fr'.top = FrFrame.slots
          /\ fr'.stack[FrFrame.slots] = fr.stack[fr.top]
          /\ \A j \in 1..(FrFrame.slots - 1) : fr'.stack[j] = FrFrame.saved[j]
          /\ fr'.ip = fr.frames[Len(fr.frames) - 1].ip
          /\ fr'.constantOffset = FrConstantsOffset(fr.frames[Len(fr.frames) - 1].closure)]_vars

\* the names of A's closures, reached only through super
FrSuperClosures == {FrMethods.A.m, FrMethods.A.n}

\* C26: super call.  In a method of B : A, super.m(args) pushes a frame for
\* A's closure for m, not B's, based at the slot holding the current this
\* with the arguments above it, the superclass constant gone from the
\* stack; when that callee returns, the caller's stack holds the returned
\* value in place of the receiver and the arguments.
C26_SuperCall ==
  [][/\ FrAt("SUPER_INVOKE") =>
          LET argCount == FrArgc(FrOperand)
              base == fr.top - 1 - argCount
          IN /\ fr.stack[fr.top] = FrValue("class", "A")
             /\ fr'.pc = "error" => (fr'.err = 1 /\ Len(fr.frames) = FramesMax)
             /\ fr'.pc # "error" =>
                  /\ fr'.pc = "run"
                  /\ Len(fr'.frames) = Len(fr.frames) + 1
                  /\ fr'.frames[Len(fr'.frames)].closure = FrMethods.A[FrOperand.name]
                  /\ fr'.frames[Len(fr'.frames)].slots = base
                  /\ fr'.stack[base] = fr.stack[FrFrame.slots]
                  /\ \A j \in 1..(fr.top - 1) : fr'.stack[j] = fr.stack[j]
                  /\ fr'.top = fr.top - 1
                  /\ fr'.ip = BytecodeOffset
     /\ (FrAt("RETURN") /\ FrFrame.closure \in FrSuperClosures) =>
          /\ fr'.pc = "run"
          /\ Len(fr'.frames) = Len(fr.frames) - 1
          /\ fr'.top = FrFrame.slots
          /\ fr'.stack[FrFrame.slots] = fr.stack[fr.top]]_vars

\* A's n is running with an argument, called through super from B's n
C26_Witness ==
  /\ fr.pc = "run" /\ Len(fr.frames) >= 2
  /\ FrFrame.closure = FrMethods.A.n
  /\ fr.frames[Len(fr.frames) - 1].closure = FrMethods.B.n
  /\ fr.stack[FrFrame.slots].k = "inst"

(***************************************************************************)
(* Upvalue records of nested functions (SpecCapture).                      *)
(*                                                                         *)
(* fn f() { let x; ... fn g() { [x;] let y; fn h() { x; y; } [x;] } }      *)
(* The chain of CurrentChunkInfo is script, f, g, h (1..4); f has a local  *)
(* x, g possibly a local y, and the references are compiled in source      *)
(* order by namedVar with current set to the function they stand in.  Then *)
(* CLOSURE creates g in f's frame and h in g's frame, and h reads x.       *)
(***************************************************************************)
\* locals declared before x in f and before y in g
MaxPad == 1

CpPadNames == <<"p", "q", "r">>
\* the locals of a function: slot 0 is the function itself
CpLocals(pad, names) == <<"">> \o [j \in 1..pad |-> CpPadNames[j]] \o names

Upvalue(index, isLocal) == [index |-> index, isLocal |-> isLocal]
CpChunk(locals) == [locals |-> locals, upvalues |-> <<>>]
CpRef(func, name) == [func |-> func, name |-> name]
CpOut(st, out) == [st |-> st, out |-> out]

\* Compiler::resolveLocal(func, name): the topmost local of that name, as a
\* slot number, or -1
resolveLocal(st, func, name) ==
  LET found == {j \in DOMAIN st.chunks[func].locals : st.chunks[func].locals[j] = name}
  IN IF found = {} THEN -1 ELSE (CHOOSE j \in found : \A k \in found : k <= j) - 1

\* Compiler::addUpvalue(index, isLocal): looks at, and adds to, the upvalues
\* of current, whichever function is being resolved
addUpvalue(st, index, isLocal) ==
  LET ups == st.chunks[st.current].upvalues
      same == {j \in DOMAIN ups : ups[j] = Upvalue(index, isLocal)}
  IN IF same # {} THEN CpOut(st, (CHOOSE j \in same : \A k \in same : j <= k) - 1)
     ELSE CpOut([st EXCEPT !.chunks[st.current].upvalues = Append(@, Upvalue(index, isLocal))],
                Len(ups))

\* Compiler::resolveUpvalue(func, name)
RECURSIVE resolveUpvalue(_, _, _)
resolveUpvalue(st, func, name) ==
  IF func = 1 THEN CpOut(st, -1)
  ELSE LET local == resolveLocal(st, func - 1, name)
           upvalue == resolveUpvalue(st, func - 1, name)
       IN IF local # -1 THEN addUpvalue(st, local, TRUE)
          ELSE IF upvalue.out # -1 THEN addUpvalue(upvalue.st, upvalue.out, FALSE)
          ELSE CpOut(upvalue.st, -1)

\* the references by h, and whether g names x before and after h
CpHRefs == {<<"x">>, <<"x", "y">>, <<"y", "x">>, <<"y">>}
CpRefs(before, hRefs, after) ==
  (IF before THEN <<CpRef(3, "x")>> ELSE <<>>)
    \o [j \in 1..Len(hRefs) |-> CpRef(4, hRefs[j])]
    \o (IF after THEN <<CpRef(3, "x")>> ELSE <<>>)

\* a cell: the ObjUpval captureUpvalue makes of a frame's slot; NoCell where
\* the enclosing closure has no such upvalue
CpCell(frame, slot) == [frame |-> frame, slot |-> slot]
NoCell == CpCell(0, -1)

InitCapture ==
  /\ RuntimeInit
  /\ uv = UvIdle /\ sw = SwIdle /\ ex = ExIdle /\ cc = CcIdle /\ nb = NbIdle
  /\ rc = RcIdle /\ fr = FrIdle /\ pj = PjIdle /\ fe = FeIdle /\ co = CoIdle
  /\ \E fPad \in 0..MaxPad, gPad \in 0..MaxPad, gHasY \in BOOLEAN,
        before \in BOOLEAN, after \in BOOLEAN, hRefs \in CpHRefs :
       cp = [pc |-> "compile",
             chunks |-> <<CpChunk(<<"">>),
                          CpChunk(CpLocals(fPad, <<"x">>)),
                          CpChunk(CpLocals(gPad, IF gHasY THEN <<"y">> ELSE <<>>)),
                          CpChunk(<<"">>)>>,
             current |-> 2,
             refs |-> CpRefs(before, hRefs, after), done |-> 0,
             emitted |-> <<>>,
             upvals |-> [g |-> <<>>, h |-> <<>>], read |-> NoCell]

CpStep(st) ==
  /\ cp' = st
  /\ UNCHANGED <<tvars, uv, sw, ex, cc, nb, rc, fr, pj, fe, co>>

\* Compiler::namedVar on the next reference, current being the function it
\* stands in: a local, else an upvalue, else a global
CpNamedVar ==
  /\ cp.pc = "compile" /\ cp.done < Len(cp.refs)
  /\ LET ref == cp.refs[cp.done + 1]
         st == [chunks |-> cp.chunks, current |-> ref.func]
         local == resolveLocal(st, ref.func, ref.name)
         upvalue == resolveUpvalue(st, ref.func, ref.name)
         op == IF local # -1 THEN "GET_LOCAL"
               ELSE IF upvalue.out # -1 THEN "GET_UPVALUE" ELSE "GET_GLOBAL"
     IN CpStep([cp EXCEPT
                  !.chunks = IF local # -1 THEN @ ELSE upvalue.st.chunks,
                  !.current = ref.func,
                  !.done = @ + 1,
                  !.emitted = Append(@, [func |-> ref.func, name |-> ref.name, op |-> op,
                                         arg |-> IF local # -1 THEN local ELSE upvalue.out])])

\* the functions are ended: the upvalue records go out behind CLOSURE
CpEnd ==
  /\ cp.pc = "compile" /\ cp.done = Len(cp.refs)
  /\ CpStep([cp EXCEPT !.pc = "closureG", !.current = 2])

\* CLOSURE in frame `frame` for a function with these records, the frame's
\* closure holding the cells `outer`
CpCaptured(records, frame, outer) ==
  [j \in DOMAIN records |->
     IF records[j].isLocal THEN CpCell(frame, records[j].index)
     ELSE IF records[j].index < Len(outer) THEN outer[records[j].index + 1]
     ELSE NoCell]

\* CLOSURE for g, executed by f, whose closure has no upvalues
CpClosureG ==
  /\ cp.pc = "closureG"
  /\ CpStep([cp EXCEPT !.pc = "closureH",
                       !.upvals.g = CpCaptured(cp.chunks[3].upvalues, 2, <<>>)])

\* CLOSURE for h, executed by g
CpClosureH ==
  /\ cp.pc = "closureH"
  /\ CpStep([cp EXCEPT !.pc = "run",
                       !.upvals.h = CpCaptured(cp.chunks[4].upvalues, 3, cp.upvals.g)])

\* the instruction emitted for h's reference to x
CpEmittedX == CHOOSE em \in Range(cp.emitted) : em.func = 4 /\ em.name = "x"

\* h runs GET_UPVALUE / SET_UPVALUE for x: frame->closure->upvals[slot]
CpGetUpvalue ==
  /\ cp.pc = "run" /\ \E em \in Range(cp.emitted) : em.func = 4 /\ em.name = "x"
  /\ CpStep([cp EXCEPT !.pc = "done",
                       !.read = IF CpEmittedX.op = "GET_UPVALUE"
                                   /\ CpEmittedX.arg < Len(cp.upvals.h)
                                THEN cp.upvals.h[CpEmittedX.arg + 1] ELSE NoCell])

NextCapture == CpNamedVar \/ CpEnd \/ CpClosureG \/ CpClosureH \/ CpGetUpvalue

SpecCapture == InitCapture /\ [][NextCapture]_vars

\* the slot of x in f, and whether h names x
CpSlotX == resolveLocal(cp, 2, "x")
CpHNamesX == \E j \in DOMAIN cp.refs : cp.refs[j] = CpRef(4, "x")

\* C27: transitive capture.  When h, nested in g nested in f, names f's
\* local x, then once the functions are compiled g has the one record
\* (isLocal, slot of x in f) and h has the record (not local, position of
\* that record in g) and no other but the one for g's local y if it names
\* y; at run time h's GET_UPVALUE for x reads the cell of f's x.
C27_TransitiveCapture ==
  (cp.pc \notin {"off", "compile"} /\ CpHNamesX) =>
    /\ cp.chunks[3].upvalues = <<Upvalue(CpSlotX, TRUE)>>
    /\ Range(cp.chunks[4].upvalues) =
         {Upvalue(0, FALSE)}
           \cup {Upvalue(resolveLocal(cp, 3, "y"), TRUE) :
                   em \in {e \in Range(cp.emitted) :
                             e.func = 4 /\ e.name = "y" /\ e.op = "GET_UPVALUE"}}
    /\ Len(cp.chunks[4].upvalues) = Cardinality(Range(cp.chunks[4].upvalues))
    /\ cp.pc = "done" => cp.read = CpCell(2, CpSlotX)

(***************************************************************************)
(* Break, continue and advance (SpecJumps).                                *)
(*                                                                         *)
(* The script is one loop or switch whose body holds let, break, continue  *)
(* and advance statements, blocks, and one more level of loops and         *)
(* switches.  The compiler emits bytes; a break, continue or advance is a  *)
(* four-byte placeholder (type, scope depth, locals to pop) kept in        *)
(* scopeJumps until patchScopeJumps rewrites it into JUMP_POPN.  Next to    *)
(* the compiler's own state the model notes, for every placeholder, the    *)
(* construct the statement belongs to and the locals live at it, and for   *)
(* every construct the locals live at its entry and the offsets a break,   *)
(* a continue and an advance of it have to reach.  Then Thread runs one of *)
(* the patched jumps.                                                      *)
(***************************************************************************)
\* statements in the body of the outermost loop or switch
MaxOuter == 2

\* more opcodes, and the three ScopeJumpType values
OP_TRUE == 4
OP_NIL == 5
OP_POP == 6
OP_POPN == 7
OP_JUMP_IF_FALSE_POP == 8
OP_LOOP_IF_TRUE == 9
OP_JUMP_POPN == 11
BREAK == 20
CONTINUE == 21
ADVANCE == 22

PjNode(kind, body) == [kind |-> kind, body |-> body]
PjLeaves == {PjNode(k, <<>>) : k \in {"let", "break", "continue", "advance"}}
\* the body of a nested construct: one statement or none
PjInner == {<<>>} \cup {<<l>> : l \in PjLeaves}
PjNested ==
  PjLeaves \cup {PjNode(k, b) : k \in {"block", "while", "switch"}, b \in PjInner}

\* Parser::breakStmt, continueStmt, advanceStmt: loopDepth and switchDepth
\* have to allow the statement
RECURSIVE PjLegal(_, _, _)
PjLegal(node, inLoop, inSwitch) ==
  CASE node.kind = "let" -> TRUE
    [] node.kind = "break" -> inLoop \/ inSwitch
    [] node.kind = "continue" -> inLoop
    [] node.kind = "advance" -> inSwitch
    [] node.kind = "block" ->
         \A i \in DOMAIN node.body : PjLegal(node.body[i], inLoop, inSwitch)
    [] node.kind \in {"while", "for"} ->
         \A i \in DOMAIN node.body : PjLegal(node.body[i], TRUE, inSwitch)
    [] OTHER ->
         \A i \in DOMAIN node.body : PjLegal(node.body[i], inLoop, TRUE)

\* switch is a switch of two cases, the second one empty; switch1 has the
\* one case only
PjPrograms ==
  {p \in {PjNode(k, b) : k \in {"while", "for", "switch", "switch1"},
                        b \in UNION {[1..n -> PjNested] : n \in 0..MaxOuter}} :
     PjLegal(p, FALSE, FALSE)}

\* the chunk of the script: the first local is claimed; locals holds the
\* depth of each local.  notes and marks are the model's bookkeeping.
PjStart ==
  [code |-> <<>>, scopeDepth |-> 0, locals |-> <<0>>, scopeWithLoop |-> <<>>,
   scopeWithSwitch |-> <<>>, scopeJumps |-> <<>>, notes |-> <<>>, marks |-> <<>>]
PjMark(base) == [base |-> base, brk |-> -1, cont |-> -1, adv |-> -1]
\* the innermost loop, switch, and loop or switch around a statement
PjCtx(loop, switch, near) == [loop |-> loop, switch |-> switch, near |-> near]

PjEmit(st, bytes) == [st EXCEPT !.code = @ \o bytes]
PjBeginScope(st) == [st EXCEPT !.scopeDepth = @ + 1]

\* Compiler::endScope: POP or POPN for the locals of the scope
PjEndScope(st) ==
  LET depth == st.scopeDepth - 1
      kept == SelectSeq(st.locals, LAMBDA d : d <= depth)
      toPop == Len(st.locals) - Len(kept)
  IN [st EXCEPT !.scopeDepth = depth, !.locals = kept,
                !.code = @ \o (CASE toPop = 0 -> <<>>
                                 [] toPop = 1 -> <<OP_POP>>
                                 [] OTHER -> <<OP_POPN, toPop>>)]

\* the loop of visitBreakStmt, visitContinueStmt and visitAdvanceStmt over
\* the locals from the top: CHECK_SCOPE_FOR_LOOP, CHECK_SCOPE_FOR_SWITCH
PjToPop(st, forLoop, forSwitch) ==
  LET below(scopes, d) == Len(scopes) > 0 /\ d <= scopes[Len(scopes)]
      stops == {i \in DOMAIN st.locals :
                  /\ st.locals[i] # -1
                  /\ \/ forLoop /\ below(st.scopeWithLoop, st.locals[i])
                     \/ forSwitch /\ below(st.scopeWithSwitch, st.locals[i])}
      top == IF stops = {} THEN 0 ELSE CHOOSE i \in stops : \A j \in stops : j <= i
  IN Len(st.locals) - top

\* the placeholder: type, scopeDepth in two bytes, toPop; its position
\* (the offset of the depth, which is the index of the type byte) is pushed
\* on scopeJumps
PjPlaceholder(st, kind, type, toPop, owner) ==
  [st EXCEPT
     !.code = @ \o <<type>> \o emit16Bit(st.scopeDepth) \o <<toPop>>,
     !.scopeJumps = Append(@, Len(st.code) + 1),
     !.notes = Append(@, [at |-> Len(st.code) + 1, kind |-> kind, owner |-> owner,
                          height |-> Len(st.locals), by |-> 0])]

\* Compiler::patchScopeJumps(type), from jump i down; by is the construct
\* that is being closed
RECURSIVE PjPatchFrom(_, _, _, _, _)
PjPatchFrom(st, i, type, curCode, by) ==
  IF i = 0 THEN st
  ELSE LET jumpPatchPos == st.scopeJumps[i]
           jumpType == st.code[jumpPatchPos]
           jumpDepth == READ_SHORT(st.code, jumpPatchPos)
           toPop == st.code[jumpPatchPos + 3]
           jumpLength == curCode - jumpPatchPos - 3
       IN IF jumpDepth > st.scopeDepth /\ type = jumpType
          THEN PjPatchFrom(
                 [st EXCEPT
                    !.code = [@ EXCEPT ![jumpPatchPos] = OP_JUMP_POPN,
                                       ![jumpPatchPos + 1] = toPop,
                                       ![jumpPatchPos + 2] = Hi(jumpLength),
                                       ![jumpPatchPos + 3] = Lo(jumpLength)],
                    !.scopeJumps = SubSeq(@, 1, i - 1) \o SubSeq(@, i + 1, Len(@)),
                    !.notes = [k \in DOMAIN @ |->
                                 IF @[k].at = jumpPatchPos THEN [@[k] EXCEPT !.by = by]
                                 ELSE @[k]]],
                 i - 1, type, curCode, by)
          ELSE IF jumpDepth < st.scopeDepth THEN st
          ELSE PjPatchFrom(st, i - 1, type, curCode, by)
PjPatchScopeJumps(st, type, by) ==
  PjPatchFrom(st, Len(st.scopeJumps), type, Len(st.code), by)

\* Compiler::emitJump returns the offset of the two 0xff bytes
PjEmitJump(st, op) == PjEmit(st, <<op, 255, 255>>)
PjPatchJump(st, offset) == [st EXCEPT !.code = patchJump(@, offset)]
\* Compiler::emitLoop
PjEmitLoop(st, start) ==
  PjEmit(st, <<OP_LOOP_IF_TRUE>> \o emit16Bit(Len(st.code) + 1 - start + 2))

RECURSIVE PjStmt(_, _, _)
RECURSIVE PjStmts(_, _, _)

\* Compiler::visitBlockStmt
PjBlock(st, body, ctx) == PjEndScope(PjStmts(PjBeginScope(st), body, ctx))

\* Compiler::visitWhileStmt for while (true) { body }
PjWhile(st, body, ctx) ==
  LET id == Len(st.marks) + 1
      cond == PjEmitJump(PjEmit(st, <<OP_TRUE>>), OP_JUMP_IF_FALSE_POP)
      jump == Len(cond.code) - 2
      loopStart == Len(cond.code)
      entered == PjBeginScope([cond EXCEPT
                   !.scopeWithLoop = Append(@, cond.scopeDepth),
                   !.marks = Append(@, PjMark(Len(cond.locals)))])
      left == PjEndScope(PjBlock(entered, body, PjCtx(id, ctx.switch, id)))
      popped == [left EXCEPT !.scopeWithLoop = SubSeq(@, 1, Len(@) - 1),
                             !.marks[id].cont = Len(left.code)]
      again == PjEmitLoop(PjEmit(PjPatchScopeJumps(popped, CONTINUE, id), <<OP_TRUE>>),
                          loopStart)
      out == PjPatchJump(again, jump)
  IN PjPatchScopeJumps([out EXCEPT !.marks[id].brk = Len(out.code)], BREAK, id)

\* Compiler::visitForStmt for for (; true; true) { body }
PjFor(st, body, ctx) ==
  LET id == Len(st.marks) + 1
      cond == PjEmitJump(PjEmit(PjBeginScope(st), <<OP_TRUE>>), OP_JUMP_IF_FALSE_POP)
      exitJump == Len(cond.code) - 2
      loopStart == Len(cond.code)
      entered == PjBeginScope([cond EXCEPT
                   !.scopeWithLoop = Append(@, cond.scopeDepth),
                   !.marks = Append(@, PjMark(Len(cond.locals)))])
      left == PjEndScope(PjBlock(entered, body, PjCtx(id, ctx.switch, id)))
      popped == [left EXCEPT !.scopeWithLoop = SubSeq(@, 1, Len(@) - 1),
                             !.marks[id].cont = Len(left.code)]
      again == PjEmitLoop(PjEmit(PjPatchScopeJumps(popped, CONTINUE, id),
                                 <<OP_TRUE, OP_POP, OP_TRUE>>),
                          loopStart)
      out == PjPatchJump(again, exitJump)
  IN PjEndScope(PjPatchScopeJumps([out EXCEPT !.marks[id].brk = Len(out.code)],
                                  BREAK, id))

\* one turn of the loop over the cases in visitSwitchStmt: the jump slot is
\* patched, the case is compiled in its own scope, the implicit break is
\* emitted and the advances are patched
PjCase(st, slot, stmts, ctx, id) ==
  LET body == PjEndScope(PjStmts(PjBeginScope(PjPatchJump(st, slot)), stmts, ctx))
  IN PjPatchScopeJumps(PjEmitJump(body, OP_JUMP), ADVANCE, id)

\* Compiler::visitSwitchStmt for switch (true) { case c1: body  case c2: }
\* without default; cases is 1 or 2
PjSwitch(st, body, ctx, cases) ==
  LET id == Len(st.marks) + 1
      head == PjEmit([st EXCEPT !.scopeWithSwitch = Append(@, st.scopeDepth),
                                !.marks = Append(@, PjMark(Len(st.locals)))],
                     <<OP_TRUE, OP_SWITCH>> \o emit16Bit(cases)
                       \o EmitIndexes(0, cases, FALSE))
      jumps == [j \in 1..(cases + 1) |-> Len(head.code) + 2 * (j - 1)]
      slots == PjEmit(head, Repeat(<<255, 255>>, cases + 1))
      first == PjCase(slots, jumps[1], body, PjCtx(ctx.loop, id, id), id)
      break1 == Len(first.code) - 2
      noted == [first EXCEPT !.marks[id].adv = Len(first.code)]
      second == IF cases = 2 THEN PjCase(noted, jumps[2], <<>>, PjCtx(ctx.loop, id, id), id)
                ELSE noted
      broken == IF cases = 2
                THEN PjPatchJump(PjPatchJump(second, break1), Len(second.code) - 2)
                ELSE PjPatchJump(second, break1)
      out == [broken EXCEPT !.scopeWithSwitch = SubSeq(@, 1, Len(@) - 1),
                            !.marks[id].brk = Len(broken.code)]
  IN PjPatchScopeJumps(out, BREAK, id)

PjStmt(st, node, ctx) ==
  CASE node.kind = "let" ->     \* let x;  (visitVarDecl: NIL, a new local)
         [PjEmit(st, <<OP_NIL>>) EXCEPT !.locals = Append(@, st.scopeDepth)]
    [] node.kind = "break" ->
         PjPlaceholder(st, "break", BREAK, PjToPop(st, TRUE, TRUE), ctx.near)
    [] node.kind = "continue" ->
         PjPlaceholder(st, "continue", CONTINUE, PjToPop(st, TRUE, FALSE), ctx.loop)
    [] node.kind = "advance" ->
         PjPlaceholder(st, "advance", ADVANCE, PjToPop(st, FALSE, TRUE), ctx.switch)
    [] node.kind = "block" -> PjBlock(st, node.body, ctx)
    [] node.kind = "while" -> PjWhile(st, node.body, ctx)
    [] node.kind = "for" -> PjFor(st, node.body, ctx)
    [] node.kind = "switch" -> PjSwitch(st, node.body, ctx, 2)
    [] node.kind = "switch1" -> PjSwitch(st, node.body, ctx, 1)

PjStmts(st, stmts, ctx) ==
  IF stmts = <<>> THEN st ELSE PjStmts(PjStmt(st, Head(stmts), ctx), Tail(stmts), ctx)

InitJumps ==
  /\ RuntimeInit
  /\ uv = UvIdle /\ sw = SwIdle /\ ex = ExIdle /\ cc = CcIdle /\ nb = NbIdle
  /\ rc = RcIdle /\ fr = FrIdle /\ cp = CpIdle /\ fe = FeIdle /\ co = CoIdle
  /\ \E prog \in PjPrograms :
       pj = [pc |-> "source", prog |-> prog, code |-> <<>>, scopeJumps |-> <<>>,
             notes |-> <<>>, marks |-> <<>>, at |-> 0, ip |-> 0, stackTop |-> 0]

\* the script is compiled
PjCompile ==
  /\ pj.pc = "source"
  /\ LET out == PjStmt(PjStart, pj.prog, PjCtx(0, 0, 0))
     IN pj' = [pj EXCEPT !.pc = "compiled", !.code = out.code,
                         !.scopeJumps = out.scopeJumps, !.notes = out.notes,
                         !.marks = out.marks]
  /\ UNCHANGED <<tvars, uv, sw, ex, cc, nb, rc, fr, cp, fe, co>>

\* the thread arrives at one of the statements, with the locals live there
\* on its stack, and runs JUMP_POPN: stackTop -= READ_BYTE(); ip +=
\* READ_SHORT().  ip is the offset of the next byte to read.
PjJumpPopN ==
  /\ pj.pc = "compiled"
  /\ \E k \in DOMAIN pj.notes :
       LET at == pj.notes[k].at
       IN /\ pj.code[at] = OP_JUMP_POPN
          /\ pj' = [pj EXCEPT !.pc = "jumped", !.at = k,
                              !.stackTop = pj.notes[k].height - pj.code[at + 1],
                              !.ip = at + 3 + READ_SHORT(pj.code, at + 1)]
  /\ UNCHANGED <<tvars, uv, sw, ex, cc, nb, rc, fr, cp, fe, co>>

NextJumps == PjCompile \/ PjJumpPopN

SpecJumps == InitJumps /\ [][NextJumps]_vars

\* the offset a statement has to reach
PjTarget(note) ==
  LET m == pj.marks[note.owner]
  IN CASE note.kind = "break" -> m.brk
       [] note.kind = "continue" -> m.cont
       [] note.kind = "advance" -> m.adv

\* C31: break/continue/advance patching.  Once the script is compiled no
\* jump is pending; every placeholder is a JUMP_POPN written when the
\* construct the statement belongs to was closed, its pop count is the
\* number of locals declared inside that construct and live at the
\* statement, and it reaches the first instruction after the construct
\* (break), the loop's increment or condition (continue), the next case
\* body or the end of the switch (advance); the thread that runs it
\* arrives there with the stack as high as at the construct's entry.
C31_ScopeJumps ==
  /\ pj.pc \in {"compiled", "jumped"} =>
       /\ pj.scopeJumps = <<>>
       /\ \A k \in DOMAIN pj.notes :
            LET note == pj.notes[k]
            IN /\ pj.code[note.at] = OP_JUMP_POPN
               /\ note.by = note.owner
               /\ pj.code[note.at + 1] = note.height - pj.marks[note.owner].base
               /\ note.at + 3 + READ_SHORT(pj.code, note.at + 1) = PjTarget(note)
  /\ pj.pc = "jumped" =>
       /\ pj.ip = PjTarget(pj.notes[pj.at])
       /\ pj.stackTop = pj.marks[pj.notes[pj.at].owner].base

(***************************************************************************)
(* mark() and sweep() over an object graph (SpecCollect).                  *)
(*                                                                         *)
(* The heap is MaxObjs objects in allocation order.  An object is a string *)
(* (no outgoing reference; interned when the intern map has an entry for   *)
(* it) or a node that refers to the next object, the previous one, both or *)
(* none, so that two- and three-object cycles occur.  The roots are pushed *)
(* with markObj one by one; then collect() runs mark() and sweep(), one    *)
(* loop iteration a step.                                                  *)
(***************************************************************************)
\* objects of the heap
MaxObjs == 3

CoObjs == 1..MaxObjs
CoSucc(o) == (o % MaxObjs) + 1
CoPred(o) == ((o + MaxObjs - 2) % MaxObjs) + 1
CoShapes == {"leaf", "succ", "pred", "both", "string", "interned"}
\* the references an object of that shape holds, in field order
CoRefs(o, shape) ==
  CASE shape = "succ" -> <<CoSucc(o)>>
    [] shape = "pred" -> <<CoPred(o)>>
    [] shape = "both" -> <<CoSucc(o), CoPred(o)>>
    [] OTHER -> <<>>
\* the roots pushed: up to two, the same object twice included
CoRoots == UNION {[1..n -> CoObjs] : n \in 0..2}

InitCollect ==
  /\ RuntimeInit
  /\ uv = UvIdle /\ sw = SwIdle /\ ex = ExIdle /\ cc = CcIdle /\ nb = NbIdle
  /\ rc = RcIdle /\ fr = FrIdle /\ cp = CpIdle /\ pj = PjIdle /\ fe = FeIdle
  /\ \E shape \in [CoObjs -> CoShapes], roots \in CoRoots :
       co = [pc |-> IF roots = <<>> THEN "mark" ELSE "roots",
             refs |-> [o \in CoObjs |-> CoRefs(o, shape[o])],
             strings |-> {o \in CoObjs : shape[o] \in {"string", "interned"}},
             hadEntry |-> {o \in CoObjs : shape[o] = "interned"},
             interned |-> {o \in CoObjs : shape[o] = "interned"},
             objects |-> [o \in CoObjs |-> o],
             marked |-> {}, markStack |-> <<>>, roots |-> roots, r |-> 1,
             traced |-> [o \in CoObjs |-> 0], heapSize |-> MaxObjs, i |-> 0]

\* GarbageCollector::markObj on the next root
CoMarkObj ==
  /\ co.pc = "roots"
  /\ co' = [co EXCEPT !.markStack = Append(@, co.roots[co.r]), !.r = @ + 1,
                      !.pc = IF co.r = Len(co.roots) THEN "mark" ELSE "roots"]
  /\ UNCHANGED <<tvars, uv, sw, ex, cc, nb, rc, fr, cp, pj, fe>>

\* Obj::trace: markObj on every reference the object holds, the first one
\* only in the variant
CoTraceFirst(o) == IF co.refs[o] = <<>> THEN <<>> ELSE <<co.refs[o][1]>>
CoTrace(o) == co.refs[o]

CoBack == co.markStack[Len(co.markStack)]
CoPopBack == SubSeq(co.markStack, 1, Len(co.markStack) - 1)

\* one turn of the loop of mark(): the object popped is marked already
CoMarkSkip ==
  /\ co.pc = "mark" /\ co.markStack # <<>> /\ CoBack \in co.marked
  /\ co' = [co EXCEPT !.markStack = CoPopBack]
  /\ UNCHANGED <<tvars, uv, sw, ex, cc, nb, rc, fr, cp, pj, fe>>

\* one turn of the loop of mark(): the object popped is marked and traced
CoMarkTrace ==
  /\ co.pc = "mark" /\ co.markStack # <<>> /\ CoBack \notin co.marked
  /\ co' = [co EXCEPT !.markStack = CoPopBack \o CoTrace(CoBack),
                      !.marked = @ \cup {CoBack},
                      !.traced[CoBack] = @ + 1]
  /\ UNCHANGED <<tvars, uv, sw, ex, cc, nb, rc, fr, cp, pj, fe>>

\* mark() returns
CoMarkEnd ==
  /\ co.pc = "mark" /\ co.markStack = <<>>
  /\ co' = [co EXCEPT !.pc = "sweep"]
  /\ UNCHANGED <<tvars, uv, sw, ex, cc, nb, rc, fr, cp, pj, fe>>

\* the entries of the intern map sweep() keeps; none is erased in the variant
CoPrunedNone(entries) == entries
CoPruned(entries) == {s \in entries : s \in co.marked}

\* sweep(): heapSize = 0, the loop over interned
CoSweepInterned ==
  /\ co.pc = "sweep"
  /\ co' = [co EXCEPT !.pc = "objects", !.heapSize = 0,
                      !.interned = CoPruned(@), !.i = Len(co.objects)]
  /\ UNCHANGED <<tvars, uv, sw, ex, cc, nb, rc, fr, cp, pj, fe>>

\* one turn of the loop over objects: delete obj; objects.erase
CoSweepFree ==
  /\ co.pc = "objects" /\ co.i >= 1 /\ co.objects[co.i] \notin co.marked
  /\ co' = [co EXCEPT !.objects = SubSeq(@, 1, co.i - 1) \o SubSeq(@, co.i + 1, Len(@)),
                      !.i = @ - 1]
  /\ UNCHANGED <<tvars, uv, sw, ex, cc, nb, rc, fr, cp, pj, fe>>

\* one turn of the loop over objects: the object stays, its mark is cleared
CoSweepKeep ==
  /\ co.pc = "objects" /\ co.i >= 1 /\ co.objects[co.i] \in co.marked
  /\ co' = [co EXCEPT !.heapSize = @ + 1, !.marked = @ \ {co.objects[co.i]},
                      !.i = @ - 1]
  /\ UNCHANGED <<tvars, uv, sw, ex, cc, nb, rc, fr, cp, pj, fe>>

\* sweep() returns
CoSweepEnd ==
  /\ co.pc = "objects" /\ co.i = 0
  /\ co' = [co EXCEPT !.pc = "swept"]
  /\ UNCHANGED <<tvars, uv, sw, ex, cc, nb, rc, fr, cp, pj, fe>>

NextCollect ==
  \/ CoMarkObj \/ CoMarkSkip \/ CoMarkTrace \/ CoMarkEnd
  \/ CoSweepInterned \/ CoSweepFree \/ CoSweepKeep \/ CoSweepEnd

SpecCollect == InitCollect /\ [][NextCollect]_vars
\* collect() runs on one thread that is never suspended for good
LiveCollect == SpecCollect /\ WF_vars(NextCollect)

\* the objects reachable from the set seen
RECURSIVE CoReach(_)
CoReach(seen) ==
  LET more == seen \cup UNION {Range(co.refs[o]) : o \in seen}
  IN IF more = seen THEN seen ELSE CoReach(more)

C33_InternMap ==
  co.pc = "swept" =>
    /\ co.interned \subseteq Range(co.objects)
    /\ \A s \in co.hadEntry : s \in Range(co.objects) => s \in co.interned
    /\ co.marked \cap Range(co.objects) = {}
\* sweep() has returned: an interned string was freed, another one survives
C33_Witness ==
  /\ co.pc = "swept"
  /\ \E s \in co.hadEntry : s \notin Range(co.objects)
  /\ \E s \in co.hadEntry : s \in Range(co.objects)

(***************************************************************************)
(* The RETURN that ends a function (SpecFuncEnd).                          *)
(*                                                                         *)
(* One function, method, constructor or the script is compiled from a body *)
(* of expression statements, return statements and if statements over      *)
(* them; a condition and a returned value read a global.  endFuncDecl      *)
(* appends the chunk to the main code block, behind the code of a function *)
(* compiled before and, the script excepted, in front of the code compiled *)
(* after.  Then a thread runs the function from its bytecodeOffset; a      *)
(* condition may come out either way.                                      *)
(***************************************************************************)
OP_RETURN == 12
OP_GET_LOCAL == 13
OP_GET_GLOBAL == 14

FeNode(kind, body) == [kind |-> kind, body |-> body]
FeLeaves(withReturn) ==
  {FeNode(k, <<>>) :
     k \in {"expr"} \cup (IF withReturn THEN {"return", "returnval"} ELSE {})}
\* if (c) s;  and  if (c) s; else t;
FeStmtSet(withReturn) ==
  FeLeaves(withReturn)
    \cup {FeNode("if", b) : b \in UNION {[1..n -> FeLeaves(withReturn)] : n \in 1..2}}
FeTypes == {"TYPE_FUNC", "TYPE_METHOD", "TYPE_CONSTRUCTOR", "TYPE_SCRIPT"}
\* visitReturnStmt raises a diagnostic in the script and in a constructor:
\* their bodies hold no return statement
FeBodies(type) ==
  UNION {[1..n -> FeStmtSet(type \in {"TYPE_FUNC", "TYPE_METHOD"})] : n \in 0..MaxBody}

\* Compiler::emitReturn
emitReturn(type) ==
  (IF type = "TYPE_CONSTRUCTOR" THEN <<OP_GET_LOCAL, 0>> ELSE <<OP_NIL>>) \o <<OP_RETURN>>

\* a chunk under compilation: its bytes and CurrentChunkInfo::hasReturnStmt
FeChunk(code, hasReturnStmt) == [code |-> code, hasReturnStmt |-> hasReturnStmt]
FeEmit(st, bytes) == [st EXCEPT !.code = @ \o bytes]

RECURSIVE FeStmt(_, _, _)
\* Compiler::visitIfStmt
visitIfStmt(st, branches, type) ==
  LET cond == FeEmit(st, <<OP_GET_GLOBAL, 0, OP_JUMP_IF_FALSE_POP, 255, 255>>)
      thenJump == Len(cond.code) - 2
      then == FeStmt(cond, branches[1], type)
  IN IF Len(branches) = 2
     THEN LET jumped == FeEmit(then, <<OP_JUMP, 255, 255>>)
              elseJump == Len(jumped.code) - 2
              else == FeStmt([jumped EXCEPT !.code = patchJump(@, thenJump)],
                             branches[2], type)
          IN [else EXCEPT !.code = patchJump(@, elseJump)]
     ELSE [then EXCEPT !.code = patchJump(@, thenJump)]

FeStmt(st, node, type) ==
  CASE node.kind = "expr" -> FeEmit(st, <<OP_GET_GLOBAL, 0, OP_POP>>)
    [] node.kind = "return" ->      \* Compiler::visitReturnStmt, no expression
         FeEmit([st EXCEPT !.hasReturnStmt = TRUE], emitReturn(type))
    [] node.kind = "returnval" ->   \* Compiler::visitReturnStmt
         FeEmit([st EXCEPT !.hasReturnStmt = TRUE], <<OP_GET_GLOBAL, 0, OP_RETURN>>)
    [] node.kind = "if" -> visitIfStmt(st, node.body, type)

RECURSIVE FeStmts(_, _, _)
FeStmts(st, stmts, type) ==
  IF stmts = <<>> THEN st ELSE FeStmts(FeStmt(st, Head(stmts), type), Tail(stmts), type)

\* Compiler::endFuncDecl: the return is emitted unless the function holds a
\* return statement; the chunk is appended to the main code block
FeEndFuncDecl(st, type, mainCodeBlock) ==
  LET chunk == IF ~st.hasReturnStmt THEN FeEmit(st, emitReturn(type)) ELSE st
  IN [bytecodeOffset |-> Len(mainCodeBlock), size |-> Len(chunk.code),
      bytecode |-> mainCodeBlock \o chunk.code]

\* the code of a function with an empty body
FeOther == emitReturn("TYPE_FUNC")

InitFuncEnd ==
  /\ RuntimeInit
  /\ uv = UvIdle /\ sw = SwIdle /\ ex = ExIdle /\ cc = CcIdle /\ nb = NbIdle
  /\ rc = RcIdle /\ fr = FrIdle /\ cp = CpIdle /\ pj = PjIdle /\ co = CoIdle
  /\ \E type \in FeTypes : \E body \in FeBodies(type) :
       fe = [pc |-> "source", type |-> type, body |-> body, bytecode |-> <<>>,
             bytecodeOffset |-> 0, size |-> 0, ip |-> 0]

\* the function is compiled and the code after it is appended
FeCompile ==
  /\ fe.pc = "source"
  /\ LET done == FeEndFuncDecl(FeStmts(FeChunk(<<>>, FALSE), fe.body, fe.type),
                               fe.type, FeOther)
     IN fe' = [fe EXCEPT !.pc = "run", !.bytecodeOffset = done.bytecodeOffset,
                         !.size = done.size, !.ip = done.bytecodeOffset,
                         !.bytecode = done.bytecode \o
                            (IF fe.type = "TYPE_SCRIPT" THEN <<>> ELSE FeOther)]
  /\ UNCHANGED <<tvars, uv, sw, ex, cc, nb, rc, fr, cp, pj, co>>

\* ip is the offset of the next opcode; it is inside the function's own
\* bytes, or the thread has left them
FeInside(ip) == ip >= fe.bytecodeOffset /\ ip < fe.bytecodeOffset + fe.size
FeGoto(ip) == [fe EXCEPT !.ip = ip, !.pc = IF FeInside(ip) THEN "run" ELSE "outside"]
FeOp(op) == fe.pc = "run" /\ fe.bytecode[fe.ip + 1] = op

FeGetGlobal ==
  /\ FeOp(OP_GET_GLOBAL)
  /\ fe' = FeGoto(fe.ip + 2)
  /\ UNCHANGED <<tvars, uv, sw, ex, cc, nb, rc, fr, cp, pj, co>>
FeGetLocal ==
  /\ FeOp(OP_GET_LOCAL)
  /\ fe' = FeGoto(fe.ip + 2)
  /\ UNCHANGED <<tvars, uv, sw, ex, cc, nb, rc, fr, cp, pj, co>>
FeNil ==
  /\ FeOp(OP_NIL)
  /\ fe' = FeGoto(fe.ip + 1)
  /\ UNCHANGED <<tvars, uv, sw, ex, cc, nb, rc, fr, cp, pj, co>>
FePop ==
  /\ FeOp(OP_POP)
  /\ fe' = FeGoto(fe.ip + 1)
  /\ UNCHANGED <<tvars, uv, sw, ex, cc, nb, rc, fr, cp, pj, co>>
\* JUMP_IF_FALSE_POP: if (isFalsey(pop())) ip += offset
FeJumpIfFalsePop ==
  /\ FeOp(OP_JUMP_IF_FALSE_POP)
  /\ \E falsey \in BOOLEAN :
       fe' = FeGoto(fe.ip + 3 + (IF falsey THEN READ_SHORT(fe.bytecode, fe.ip + 1) ELSE 0))
  /\ UNCHANGED <<tvars, uv, sw, ex, cc, nb, rc, fr, cp, pj, co>>
FeJump ==
  /\ FeOp(OP_JUMP)
  /\ fe' = FeGoto(fe.ip + 3 + READ_SHORT(fe.bytecode, fe.ip + 1))
  /\ UNCHANGED <<tvars, uv, sw, ex, cc, nb, rc, fr, cp, pj, co>>
\* RETURN: the frame is left
FeReturn ==
  /\ FeOp(OP_RETURN)
  /\ fe' = [fe EXCEPT !.pc = "returned"]
  /\ UNCHANGED <<tvars, uv, sw, ex, cc, nb, rc, fr, cp, pj, co>>

NextFuncEnd ==
  \/ FeCompile \/ FeGetGlobal \/ FeGetLocal \/ FeNil \/ FePop
  \/ FeJumpIfFalsePop \/ FeJump \/ FeReturn

SpecFuncEnd == InitFuncEnd /\ [][NextFuncEnd]_vars

\* the body holds a return statement, at the top or in an if
FeReturns(body) ==
  \E i \in DOMAIN body :
     \/ body[i].kind \in {"return", "returnval"}
     \/ \E j \in DOMAIN body[i].body : body[i].body[j].kind \in {"return", "returnval"}

\* C35: function termination inside its own code.  A thread that runs a
\* function, method, constructor or the script from its bytecodeOffset
\* never reads an opcode outside the function's own bytes, whichever way
\* the conditions come out: every path ends in a RETURN of the function,
\* and the one at the end of the body returns nil, or this in a
\* constructor.
C35_OwnReturn ==
  /\ fe.pc # "outside"
  /\ fe.pc = "returned" => FeInside(fe.ip)
  /\ (fe.pc = "returned" /\ ~FeReturns(fe.body)) =>
       /\ fe.ip = fe.bytecodeOffset + fe.size - 1
       /\ IF fe.type = "TYPE_CONSTRUCTOR"
          THEN fe.bytecode[fe.ip - 1] = OP_GET_LOCAL /\ fe.bytecode[fe.ip] = 0
          ELSE fe.bytecode[fe.ip] = OP_NIL

(***************************************************************************)
(* Claims about the runtime.                                               *)
(***************************************************************************)
MainInLoop == pc[Main] \notin {"done", "error"}

\* no thread was cancelled and none left its loop through a runtime error
Undisturbed ==
  \A t \in Threads : ~cancelToken[t] /\ pc[t] \notin {"error", "orphan", "threw", "stuck"}

\* the step on which collect() returns to the dispatch loop
CollectReturns == pc[Main] = "finish" /\ pc'[Main] = "exec"

\* C1: safepoint liveness.  Whenever shouldCollect is set while the main thread
\* is in its dispatch loop (blocked in AWAIT included), the collection is
\* eventually served: shouldCollect is cleared again.  Stated for the runs in
\* which no thread is cancelled or fails, and a main thread that returns ends
\* the obligation.
C1_SafepointLiveness ==
  (shouldCollect /\ MainInLoop /\ Undisturbed)
    ~> (~shouldCollect \/ ~MainInLoop \/ ~Undisturbed)

\* C2: collector/mutator exclusion.  While the main thread is inside collect,
\* with mark or sweep still to run, no child thread is executing an instruction.
C2_Exclusion ==
  pc[Main] \in {"collect", "sweep", "sweepLoop"} => \A c \in Children : pc[c] # "exec"

\* C3: await contract.  A thread blocked in AWAIT eventually leaves the AWAIT
\* (in the runs in which no thread is cancelled or fails, so that every child
\* function returns at frame 0).
C3_AwaitCompletes ==
  \A t \in Threads :
    (pc[t] = "awaiting" /\ Undisturbed) ~> (pc[t] # "awaiting" \/ ~Undisturbed)

\* C4: cancellation.  A child that reaches the top of its dispatch loop with its
\* cancelToken set eventually has left the loop, with nil in its future, itself
\* out of childThreads, the future's thread null and pauseMtx not held by it.
C4_Cancellation ==
  \A c \in Children :
    (pc[c] = "top" /\ cancelToken[c])
      ~> (/\ pc[c] = "done"
          /\ heap[fut(c)].val = NilVal
          /\ heap[fut(c)].thread = NoThread
          /\ c \notin Range(childThreads)
          /\ pauseMtx # c)

\* C5: GC soundness.  When collect returns, every object reachable through trace
\* edges from a root (globals, the stacks and frame closures of the main thread
\* and of every thread in childThreads) is still in the objects list.
C5_Soundness ==
  [][CollectReturns => \A o \in Reachable' : o \in Range(objects')]_vars

\* C6: when collect returns, heapSize is the sum of getSize() over the objects
\* list.
C6_HeapSizeIsSum ==
  [][CollectReturns => heapSize' = SumSize(objects')]_vars

\* C7: threshold growth.  When collect returns, heapSizeLimit is twice its old
\* value if the swept heapSize exceeds it, and unchanged otherwise.
C7_LimitDoubles ==
  [][CollectReturns =>
       heapSizeLimit' = (IF heapSize > heapSizeLimit THEN 2 * heapSizeLimit
                         ELSE heapSizeLimit)]_vars

\* C8: alloc(n) adds n to heapSize and appends one entry to the objects list in
\* one step, raises shouldCollect exactly when the new heapSize is over the
\* limit, and marks, sweeps and frees nothing; marking and sweeping are steps of
\* the thread whose slot 0 holds no future, entered from the top of its loop.
C8_AllocOnlyCounts ==
  [][/\ Len(heap') > Len(heap) =>
          /\ heapSize' = heapSize + SizeOf(heap'[Len(heap')].type)
          /\ objects' = Append(objects, Len(heap'))
          /\ shouldCollect' = (shouldCollect \/ heapSize' > heapSizeLimit)
          /\ marked' = marked
          /\ heapSizeLimit' = heapSizeLimit
     /\ (marked' # marked \/ Range(objects) \ Range(objects') # {}) =>
          /\ pc[Main] \in {"collect", "sweepLoop"}
          /\ pc'[Main] # pc[Main]
          /\ fut(Main) = 0
          /\ \A c \in Children : pc'[c] = pc[c]
     /\ (pc'[Main] = "collect" /\ pc[Main] # "collect") =>
          pc[Main] \in {"top", "gcWait"}]_vars

\* alloc has pushed heapSize over the limit and raised shouldCollect, and the
\* main thread, at the top of its loop, has entered collect
C8_Witness ==
  /\ Len(heap) > 2
  /\ shouldCollect /\ heapSize > heapSizeLimit
  /\ pc[Main] = "collect"

\* the Thread object of child c has been deleted: its future's handle is null
Deleted(c) == pc[c] # "none" /\ heap[fut(c)].thread = NoThread

\* childThreads holds only live threads, each once, and a child that has
\* left executeBytecode through RETURN or the cancel branch is out of it and
\* deleted
RegistryOk ==
  /\ \A i, j \in DOMAIN childThreads : childThreads[i] = childThreads[j] => i = j
  /\ \A c \in Range(childThreads) : pc[c] \notin {"none", "orphan"} /\ ~Deleted(c)
  /\ \A c \in Children : pc[c] = "done" => c \notin Range(childThreads) /\ Deleted(c)

\* thread t finishes an AWAIT on a future whose thread is already deleted
LaterAwait(t) ==
  pc[t] = "awaiting" /\ pc'[t] = "top" /\ heap[awaited[t]].thread = NoThread

NoCancel == \A t \in Threads : ~cancelToken[t]

\* child c left its dispatch loop through the catch of executeBytecode
Errored(c) == pc[c] = "error"

\* the main thread waits for allThreadsPaused while every child still to
\* pause has left its loop through a runtime error
WaitsForErrored ==
  /\ pc[Main] = "gcWait"
  /\ \E c \in Children : Errored(c)
  /\ \A d \in Children : pc[d] \in {"none", "done", "error"}

\* thread t is in the AWAIT on the future of the errored child c
AwaitsErrored(t, c) == Errored(c) /\ pc[t] = "awaiting" /\ awaited[t] = fut(c)

\* C36: child runtime error.  A child that leaves its dispatch loop because
\* of a runtime error stops counting as a live child: a collection the main
\* thread waits for while the only children still to pause are errored ones
\* is served (the main thread leaves the wait for allThreadsPaused), and an
\* AWAIT on the errored child's future completes and takes the thread out
\* of childThreads.
C36_ChildError ==
  /\ (WaitsForErrored /\ NoCancel) ~> (pc[Main] # "gcWait" \/ ~NoCancel)
  /\ ((\E t \in Threads, c \in Children : AwaitsErrored(t, c)) /\ NoCancel)
       ~> (~(\E t \in Threads, c \in Children : AwaitsErrored(t, c)) \/ ~NoCancel)
  /\ [][\A t \in Threads, c \in Children :
          (AwaitsErrored(t, c) /\ pc'[t] # "awaiting") =>
            c \notin Range(childThreads')]_vars

\* the await half of C36: its progress, and what its step does
C36_AwaitProgress ==
  ((\E t \in Threads, c \in Children : AwaitsErrored(t, c)) /\ NoCancel)
    ~> (~(\E t \in Threads, c \in Children : AwaitsErrored(t, c)) \/ ~NoCancel)

C36_AwaitRemoves ==
  [][\A t \in Threads, c \in Children :
          (AwaitsErrored(t, c) /\ pc'[t] # "awaiting") =>
            c \notin Range(childThreads')]_vars

\* the children blocked in childThreadsCv.wait
InSafepointWait == {c \in Children : pc[c] = "wait"}

\* the children between their fetch_add and their fetch_sub
Counted == {c \in Children : pc[c] \in {"wait", "dec"}}

\* C37: pause counter bounds.  In every reachable state
\* 0 <= threadsPaused <= Len(childThreads); threadsPaused is the number of
\* child threads blocked in the safepoint wait, and each of them is in
\* childThreads; no step removes a counted thread from childThreads, and
\* the counter goes up only by one, on the step of a child at its fetch_add.
C37_PauseCounter ==
  /\ [](/\ threadsPaused \in 0..Len(childThreads)
        /\ threadsPaused = Cardinality(InSafepointWait)
        /\ InSafepointWait \subseteq Range(childThreads))
  /\ [][/\ \A c \in Counted : c \in Range(childThreads')
        /\ threadsPaused' > threadsPaused =>
             /\ threadsPaused' = threadsPaused + 1
             /\ pc'[Main] = pc[Main]
             /\ \E c \in Children : pc[c] = "inc" /\ pc'[c] = "wait"]_vars

\* C37 with the counter read as the threads between fetch_add and fetch_sub
C37_CountedOnly ==
  /\ [](/\ threadsPaused \in 0..Len(childThreads)
        /\ threadsPaused = Cardinality(Counted)
        /\ Counted \subseteq Range(childThreads))
  /\ [][/\ \A c \in Counted : c \in Range(childThreads')
        /\ threadsPaused' > threadsPaused =>
             /\ threadsPaused' = threadsPaused + 1
             /\ pc'[Main] = pc[Main]
             /\ \E c \in Children : pc[c] = "inc" /\ pc'[c] = "wait"]_vars

====
